---- MODULE Spec2Model ----
(***************************************************************************)
(* Sims4Rewind: the backup engine (backup_handler.py), the naming codec    *)
(* (utils.py) and the restore operation (services.py) as a state machine.  *)
(*                                                                         *)
(* Threads: the worker thread runs BackupHandler.run (reconciliation, the  *)
(* idle loop, the teardown); the watchdog observer thread runs             *)
(* BackupEventHandler.on_modified and, inside it, check_and_create_backup; *)
(* the main thread issues start and stop. The environment writes the live  *)
(* save files, deletes backup files and advances the clock.                *)
(***************************************************************************)
EXTENDS Integers, Sequences, FiniteSets, TLC

(***************************************************************************)
(* Bounds of the model.                                                    *)
(***************************************************************************)
MaxContent == 3         \* save-file contents are 1..MaxContent
MaxRetention == 2       \* backup_count is chosen in 1..MaxRetention
MaxStarts == 2          \* engine starts in one behaviour
MaxExtDeletes == 1      \* external deletions of backup files
MaxIOFailures == 1      \* injected read / copy failures
MaxGameWrites == 2      \* writes of the game to live save files
ShortRun == 1           \* seconds a behaviour lasts
MaxRestores == 2        \* calls of restore_backup_file in one behaviour
LongRun == 4            \* seconds of a behaviour that outlasts a debounce window
MaxNameLen == 5         \* pieces in a filename given to the naming codec

(***************************************************************************)
(* Program constants.                                                      *)
(***************************************************************************)
DebounceInterval == 3   \* seconds, BackupEventHandler.debounce_interval
HashRetries == 3        \* _calculate_hash(retries=3)

(***************************************************************************)
(* Time. The clock `now` counts seconds: time.time() and datetime.now()    *)
(* read it, and a timestamp in a backup filename ("%Y-%m-%d_%H-%M-%S") is  *)
(* its value. File modification times are finer than a second: each write  *)
(* of a file is stamped with the next value of `mclock`, so that a later   *)
(* write has a later mtime even within one second of `now`.                *)
(***************************************************************************)
StartTime == 4          \* clock at construction (time.time() is far from 0)

strftime(t) == t

Names == {"A", "B"}     \* the original save files A.save and B.save

\* Paths the observer can report besides the save files: a file without
\* the save extension, and a directory whose name ends in ".save".
OtherPaths == {"notes.txt", "Slot.save"}

EventPaths == Names \cup OtherPaths

\* event.is_directory
is_directory(path) == path = "Slot.save"

\* event.src_path.endswith('.save')
EndsWithSave(path) == path \in Names \/ path = "Slot.save"
Contents == 1 .. MaxContent
Torn == 0               \* bytes of a file whose write stopped part-way
Exts == {"bak", "zip"}

NONE == 0               \* Python's None for a digest

(***************************************************************************)
(* hashlib.sha256 over the bytes of a file. The bytes of a raw file are    *)
(* its content; a digest is never None.                                    *)
(***************************************************************************)
Sha256(bytes) == 1000 + bytes

(***************************************************************************)
(* A backup filename "<original>_<timestamp>.<ext>" as the triple it is    *)
(* built from, and utils.get_original_from_backup on such a name.          *)
(***************************************************************************)
BackupName(original, timestamp, ext) ==
    [orig |-> original, ts |-> timestamp, ext |-> ext]

NoName == [orig |-> "", ts |-> 0, ext |-> ""]

NoOriginal == ""

\* file names in a folder the user restores to: the save names and another
LocNames == Names \cup {"X"}

DecodedOriginal(f) ==
    IF f.ext \in Exts /\ f.orig \in Names THEN f.orig ELSE NoOriginal

VARIABLES
    now,                 \* the clock, in seconds
    mclock,              \* the next file modification time
    live,                \* saves folder: name -> [c, mtime] or NoFile
    backups,             \* backup folder: filename -> [c, mtime]
    backup_count,        \* BackupHandler.backup_count
    compress_backups,    \* BackupHandler.compress_backups
    is_running,          \* BackupHandler._is_running
    last_backup_hashes,  \* BackupHandler.last_backup_hashes (the HashTable)
    observer,            \* "new", "alive", "stopping", "dead"
    pending,             \* names with a modification event queued in the observer
    last_processed,      \* BackupEventHandler.last_processed
    wpc,                 \* position of the worker thread in run()
    grouped_backups,     \* local of reconciliation: the listed .bak files
    save_files_to_check, \* local of reconciliation: snapshot of the live folder
    ridx,                \* local of reconciliation: loop index
    bpc,                 \* position inside check_and_create_backup / prune_backups
    bcaller,             \* "none", "reconcile" or "watcher"
    bname,               \* original_filename of the call
    current_hash,        \* local of check_and_create_backup
    backups_for_this_save, \* local of prune_backups: listing, then sorted list
    num_to_delete,       \* local of prune_backups
    pidx,                \* local of prune_backups: loop index
    limits,              \* what the environment may do in this behaviour
    fcall,               \* frame of a function stepped on its own (no engine)
    hist,                \* history (ghost) record, see HistInit
    safety,              \* saves folder: the .pre-restore-<timestamp> files
    elsewhere,           \* a folder the user restores to: name -> file
    rpc,                 \* position inside restore_backup_file
    rcall,               \* arguments of the restore_backup_file call
    rhist                \* history (ghost) record of the restores

vars == << now, mclock, live, backups, backup_count, compress_backups, is_running,
           last_backup_hashes, observer, pending, last_processed, wpc,
           grouped_backups, save_files_to_check, ridx, bpc, bcaller, bname,
           current_hash, backups_for_this_save, num_to_delete, pidx, limits, fcall,
           hist, safety, elsewhere, rpc, rcall, rhist >>

restoreVars == << safety, elsewhere, rpc, rcall, rhist >>

NoFile == [c |-> -1, mtime |-> -1]

File(c, mtime) == [c |-> c, mtime |-> mtime]

(***************************************************************************)
(* Finite maps with a changing domain (Python dicts, directory listings).  *)
(***************************************************************************)
EmptyMap == [x \in {} |-> 0]

Put(m, k, v) == (k :> v) @@ m

Remove(m, k) == [x \in DOMAIN m \ {k} |-> m[x]]

Get(m, k, default) == IF k \in DOMAIN m THEN m[k] ELSE default

(***************************************************************************)
(* History variables: budgets of the environment, and what the current     *)
(* (or last) check_and_create_backup call and engine run have done. They   *)
(* are written by the actions and read only by the properties.             *)
(***************************************************************************)
Limits(starts, writes, deletes, failures, seconds) ==
    [starts |-> starts, writes |-> writes, deletes |-> deletes,
     failures |-> failures, maxTime |-> StartTime + seconds]

\* A behaviour has restarts and an external deletion, or several changes of
\* the save files, or an I/O failure.
Scenarios ==
    { Limits(MaxStarts, 1, MaxExtDeletes, 0, ShortRun + 1),
      Limits(1, MaxGameWrites, 0, 0, ShortRun),
      Limits(1, 1, 0, MaxIOFailures, ShortRun) }

HistInit ==
    [ starts        |-> 0,      \* engine starts so far
      extDeletes    |-> 0,      \* external deletions so far
      ioFailures    |-> 0,      \* injected I/O failures so far
      gameWrites    |-> 0,      \* game writes so far
      maxContent    |-> 1,      \* largest content written so far
      stopRequested |-> FALSE,  \* stop() was called since the last start
      stopInInit    |-> FALSE,  \* stop() was called before the watcher decision
      stopInRecon   |-> FALSE,  \* stop() was called during reconciliation
      initialAtStop |-> {},     \* initialFor at that call of stop()
      reconciled    |-> 0,      \* reconciliations begun since the last start
      attached      |-> 0,      \* watcher attachments since the last start
      initialFor    |-> {},     \* names reconciliation called the engine for
      hadBackup     |-> {},     \* names with a backup file when run() began
      initialMade   |-> {},     \* names whose initial call wrote a backup
      initialNotified |-> {},   \* names 'Initial Backup Created' was sent for
      reconErrors   |-> {},     \* names whose initial call reported an error
      made          |-> [n \in Names |-> 0], \* backups written since the start
      newest        |-> [n \in Names |-> NoName], \* last backup written, ever
      callLog       |-> << >>,  \* events emitted by the call, in order
      callSteps     |-> << >>,  \* what the call has done so far, in code order
      callHashes    |-> EmptyMap, \* last_backup_hashes when the call began
      callRead      |-> -1,     \* content of the live file the call hashed
      callClean     |-> TRUE,   \* no read attempt of the call failed part-way
      callExisted   |-> {},     \* backup filenames present when the call began
      callWritten   |-> {},     \* backup filenames the call wrote
      callRemoved   |-> {},     \* backup filenames the call's prune removed
      callGone      |-> {},     \* filenames deleted externally during the call
      pruneMtime    |-> EmptyMap, \* mtime of each listed file at the sort
      prevCreated   |-> [n \in Names |-> -1], \* content read by the last call
                                \* for n on this engine, if it made a backup
      failedHash    |-> [n \in Names |-> NONE], \* hash computed by the last
                                \* call for n, if that call failed afterwards
      lastOutcome   |-> [n \in Names |-> "none"] \* "abandoned": the last call
                                \* for n gave up on a read failure; "retry_due":
                                \* n has changed since; "dropped": the last
                                \* event for n fell in the debounce window
    ]

Event(tag, f) == [tag |-> tag, f |-> f]

Emit(h, tag, f) == [h EXCEPT !.callLog = Append(@, Event(tag, f))]

Tags(log) == {log[i].tag : i \in 1 .. Len(log)}

(***************************************************************************)
(* State after construction: the backup folder is empty, the saves folder  *)
(* holds A.save, no engine has been started.                               *)
(***************************************************************************)
NotStarted ==
    /\ backup_count = 1
    /\ compress_backups = FALSE
    /\ is_running = FALSE
    /\ last_backup_hashes = EmptyMap
    /\ observer = "new"
    /\ pending = {}
    /\ last_processed = EmptyMap
    /\ wpc = "idle"
    /\ grouped_backups = {}
    /\ save_files_to_check = << >>
    /\ ridx = 1
    /\ bpc = "idle"
    /\ bcaller = "none"
    /\ bname = "A"
    /\ current_hash = NONE
    /\ backups_for_this_save = [listed |-> {}, sorted |-> << >>]
    /\ num_to_delete = 0
    /\ pidx = 1
    /\ hist = HistInit

\* no restore has been requested
NoCall == [src |-> NoName, orig |-> NoOriginal, dest |-> "", live |-> FALSE]

RHistInit ==
    [ restores   |-> 0,       \* calls of restore_backup_file so far
      failures   |-> 0,       \* I/O failures injected into restores
      found      |-> FALSE,   \* this call found a file at the live path
      renamed    |-> {},      \* contents of the live files renamed aside
      asideBefore |-> EmptyMap, \* the .pre-restore files when the call began
      otherBefore |-> EmptyMap, \* the folder restored to when the call began
      written    |-> NoFile,  \* the file this call has put at its destination
      events     |-> << >>,   \* notifications of this call
      raised     |-> FALSE,   \* this call re-raised an exception
      dialog     |-> "none" ] \* what the UI showed for the last call

\* no function is being stepped on its own
NoFrame == [fn |-> "none"]

RestoreIdle ==
    /\ fcall = NoFrame
    /\ safety = EmptyMap
    /\ elsewhere = [n \in LocNames |-> NoFile]
    /\ rpc = "idle"
    /\ rcall = NoCall
    /\ rhist = RHistInit

Fresh ==
    /\ now = StartTime
    /\ mclock = 2
    /\ live = [n \in Names |-> IF n = "A" THEN File(1, 1) ELSE NoFile]
    /\ backups = EmptyMap
    /\ NotStarted
    /\ RestoreIdle

Init ==
    /\ Fresh
    /\ limits \in Scenarios

engineVars == << backup_count, compress_backups, is_running, last_backup_hashes,
                 observer, last_processed, wpc, grouped_backups,
                 save_files_to_check, ridx >>

callVars == << bpc, bcaller, bname, current_hash, backups_for_this_save,
               num_to_delete, pidx >>

(***************************************************************************)
(* The environment.                                                        *)
(***************************************************************************)
\* Time passes.
Tick ==
    /\ now < limits.maxTime
    /\ \E t \in (now + 1) .. limits.maxTime : now' = t
    /\ UNCHANGED << mclock, live, backups, pending, limits, fcall, hist, restoreVars >>
    /\ UNCHANGED engineVars
    /\ UNCHANGED callVars

\* The game writes save file n with content c (c may be the content it has:
\* a rewrite). An attached observer queues a modification event for it.
\* Contents are interchangeable: a content never written before is the next
\* unused one.
GameWrite(n, c) ==
    /\ hist.gameWrites < limits.writes
    /\ c <= hist.maxContent + 1
    /\ live' = [live EXCEPT ![n] = File(c, mclock)]
    /\ mclock' = mclock + 1
    /\ pending' = IF observer = "alive" THEN pending \cup {n} ELSE pending
    /\ hist' = [hist EXCEPT !.gameWrites = @ + 1,
                            !.maxContent = IF c > @ THEN c ELSE @,
                            !.lastOutcome[n] =
                                IF @ = "abandoned" /\ observer = "alive"
                                THEN "retry_due" ELSE @]
    /\ UNCHANGED << now, backups, limits, fcall, restoreVars >>
    /\ UNCHANGED engineVars
    /\ UNCHANGED callVars

\* Somebody deletes backup file f from the backup folder.
ExternalDelete(f) ==
    /\ f \in DOMAIN backups
    /\ hist.extDeletes < limits.deletes
    /\ backups' = Remove(backups, f)
    /\ hist' = [hist EXCEPT !.extDeletes = @ + 1,
                            !.callGone = IF bpc = "idle" THEN @ ELSE @ \cup {f}]
    /\ UNCHANGED << now, mclock, live, pending, limits, fcall, restoreVars >>
    /\ UNCHANGED engineVars
    /\ UNCHANGED callVars

(***************************************************************************)
(* The main thread: BackupService.start_monitoring constructs a            *)
(* BackupHandler with the current settings and starts its thread;          *)
(* stop_monitoring calls BackupHandler.stop.                               *)
(***************************************************************************)
Start(count, compress) ==
    /\ wpc = "idle"
    /\ bpc = "idle"
    /\ hist.starts < limits.starts
    /\ backup_count' = count
    /\ compress_backups' = compress
    /\ is_running' = FALSE
    /\ last_backup_hashes' = EmptyMap
    /\ observer' = "new"
    /\ pending' = {}
    /\ last_processed' = EmptyMap
    /\ wpc' = "starting"
    /\ hist' = [hist EXCEPT !.starts = @ + 1, !.stopRequested = FALSE,
                            !.stopInInit = FALSE, !.reconciled = 0,
                            !.stopInRecon = FALSE, !.initialAtStop = {},
                            !.attached = 0, !.initialFor = {},
                            !.hadBackup = {}, !.initialMade = {},
                            !.initialNotified = {}, !.reconErrors = {},
                            !.made = [n \in Names |-> 0],
                            !.prevCreated = [n \in Names |-> -1],
                            !.failedHash = [n \in Names |-> NONE],
                            !.lastOutcome = [n \in Names |-> "none"]]
    /\ UNCHANGED << limits, fcall, restoreVars >>
    /\ UNCHANGED << now, mclock, live, backups, grouped_backups, save_files_to_check, ridx >>
    /\ UNCHANGED callVars

\* positions of the worker inside _initialize_and_create_initial_backups
Reconciling == {"seed_list", "seed_hash", "scan_list", "scan_loop", "scan_call"}

stop ==
    /\ wpc \notin {"idle", "crashed"}
    /\ is_running \/ ~hist.stopRequested
    /\ is_running' = FALSE
    /\ hist' = [hist EXCEPT !.stopRequested = TRUE,
                            !.stopInInit = @ \/ wpc \notin {"loop", "teardown", "join"},
                            !.stopInRecon = @ \/ wpc \in Reconciling,
                            !.initialAtStop =
                                IF ~hist.stopInRecon /\ wpc \in Reconciling
                                THEN hist.initialFor ELSE @]
    /\ UNCHANGED << limits, fcall, restoreVars >>
    /\ UNCHANGED << now, mclock, live, backups, pending, backup_count, compress_backups,
                    last_backup_hashes, observer, last_processed, wpc,
                    grouped_backups, save_files_to_check, ridx >>
    /\ UNCHANGED callVars

(***************************************************************************)
(* list.sort(key=os.path.getmtime): the orders the sort can produce for    *)
(* the files of S. The sort is stable and os.listdir returns the files in  *)
(* arbitrary order, so files of equal mtime come out in any order.         *)
(***************************************************************************)
Enumerations(S) ==
    {s \in [1 .. Cardinality(S) -> S] : \A i, j \in DOMAIN s : i /= j => s[i] /= s[j]}

\* the same sort with reverse=True: newest first
SortedNewestFirst(S, dir) ==
    {s \in Enumerations(S) :
        \A i, j \in DOMAIN s : i < j => dir[s[i]].mtime >= dir[s[j]].mtime}

SortedByMtime(S, dir) ==
    {s \in Enumerations(S) :
        \A i, j \in DOMAIN s : i < j => dir[s[i]].mtime <= dir[s[j]].mtime}

\* backup_list.sort(..., reverse=True); backup_list[0]
LatestOf(S, dir) == {f \in S : \A g \in S : dir[g].mtime <= dir[f].mtime}

(***************************************************************************)
(* BackupHandler._calculate_hash. One sha256 object is created before the  *)
(* retry loop and fed by every attempt. An attempt either fails at open()  *)
(* ("open_fail": nothing fed), fails in f.read() after at least one block  *)
(* was fed ("read_fail"), or reads the whole file ("ok") and returns the   *)
(* digest of everything fed so far. After `retries` failed attempts the    *)
(* result is None.                                                         *)
(***************************************************************************)
AttemptOutcomes == {"open_fail", "read_fail", "ok"}

\* the attempt sequences of one call: up to the first "ok", at most HashRetries
AttemptRuns ==
    {a \in UNION {[1 .. k -> AttemptOutcomes] : k \in 1 .. HashRetries} :
        /\ \A i \in 1 .. Len(a) - 1 : a[i] /= "ok"
        /\ a[Len(a)] = "ok" \/ Len(a) = HashRetries}

PartialReads(a) == Cardinality({i \in DOMAIN a : a[i] = "read_fail"})

\* digest of: one partial prefix of the file per "read_fail", then the file
Sha256Fed(prefixes, bytes) == Sha256(bytes) + 100 * prefixes

calculate_hash(bytes, a) ==
    IF a[Len(a)] = "ok" THEN Sha256Fed(PartialReads(a), bytes) ELSE NONE

\* a file that does not exist fails every open()
AttemptRunsFor(file) ==
    IF file = NoFile
    THEN {[i \in 1 .. HashRetries |-> "open_fail"]}
    ELSE AttemptRuns

Failed(a) == \E i \in DOMAIN a : a[i] /= "ok"

(***************************************************************************)
(* Entry of check_and_create_backup(path) for save file n.                 *)
(***************************************************************************)
BeginCall(n, caller, h) ==
    /\ bpc' = "hash"
    /\ bcaller' = caller
    /\ bname' = n
    /\ current_hash' = NONE
    /\ backups_for_this_save' = [listed |-> {}, sorted |-> << >>]
    /\ num_to_delete' = 0
    /\ pidx' = 1
    /\ hist' = [h EXCEPT !.callLog = << >>,
                         !.callSteps = << >>,
                         !.callHashes = last_backup_hashes,
                         !.callRead = -1,
                         !.callClean = TRUE,
                         !.callExisted = DOMAIN backups,
                         !.callWritten = {},
                         !.callRemoved = {},
                         !.callGone = {},
                         !.pruneMtime = EmptyMap]

(***************************************************************************)
(* The worker thread: BackupHandler.run.                                   *)
(***************************************************************************)
\* a run() that starts the observer before reconciliation
RunBeginAttaching ==
    /\ wpc = "starting"
    /\ is_running' = TRUE
    /\ observer' = "alive"
    /\ wpc' = "seed_list"
    /\ hist' = [hist EXCEPT !.reconciled = @ + 1,
                            !.hadBackup = {DecodedOriginal(f) : f \in DOMAIN backups}]
    /\ UNCHANGED << limits, fcall, restoreVars >>
    /\ UNCHANGED << now, mclock, live, backups, pending, backup_count, compress_backups,
                    last_backup_hashes, last_processed,
                    grouped_backups, save_files_to_check, ridx >>
    /\ UNCHANGED callVars

\* run(), line 64, and the head of _initialize_and_create_initial_backups
RunBegin ==
    /\ wpc = "starting"
    /\ is_running' = TRUE
    /\ wpc' = "seed_list"
    /\ hist' = [hist EXCEPT !.reconciled = @ + 1,
                            !.hadBackup = {DecodedOriginal(f) : f \in DOMAIN backups}]
    /\ UNCHANGED << limits, fcall, restoreVars >>
    /\ UNCHANGED << now, mclock, live, backups, pending, backup_count, compress_backups,
                    last_backup_hashes, observer, last_processed,
                    grouped_backups, save_files_to_check, ridx >>
    /\ UNCHANGED callVars

\* lines 119-126: list the backup folder, keep the decodable ".bak" names
SeedList ==
    /\ wpc = "seed_list"
    /\ grouped_backups' =
          {f \in DOMAIN backups : f.ext = "bak" /\ DecodedOriginal(f) /= NoOriginal}
    /\ wpc' = "seed_hash"
    /\ UNCHANGED << limits, fcall, restoreVars >>
    /\ UNCHANGED << now, mclock, live, backups, pending, backup_count, compress_backups,
                    is_running, last_backup_hashes, observer, last_processed,
                    save_files_to_check, ridx, hist >>
    /\ UNCHANGED callVars

\* lines 128-133: per group, sort by mtime and hash the latest file. getmtime
\* of a file that vanished since the listing raises out of run().
SeedHash ==
    /\ wpc = "seed_hash"
    /\ \/ /\ \E f \in grouped_backups : f \notin DOMAIN backups
          /\ wpc' = "crashed"
          /\ UNCHANGED << last_backup_hashes, hist >>
       \/ /\ \A f \in grouped_backups : f \in DOMAIN backups
          /\ LET groups == {DecodedOriginal(f) : f \in grouped_backups}
                 group(g) == {f \in grouped_backups : DecodedOriginal(f) = g}
             IN \E latest \in [groups -> grouped_backups] :
                \E runs \in [groups -> AttemptRuns] :
                  /\ \A g \in groups : latest[g] \in LatestOf(group(g), backups)
                  /\ Cardinality({g \in groups : Failed(runs[g])})
                        <= limits.failures - hist.ioFailures
                  /\ last_backup_hashes' =
                        [g \in {x \in groups :
                                  calculate_hash(backups[latest[x]].c, runs[x]) /= NONE}
                           |-> calculate_hash(backups[latest[g]].c, runs[g])]
                  /\ hist' = [hist EXCEPT !.ioFailures =
                                @ + Cardinality({g \in groups : Failed(runs[g])})]
          /\ wpc' = "scan_list"
    /\ UNCHANGED << limits, fcall, restoreVars >>
    /\ UNCHANGED << now, mclock, live, backups, pending, backup_count, compress_backups,
                    is_running, observer, last_processed, grouped_backups,
                    save_files_to_check, ridx >>
    /\ UNCHANGED callVars

\* line 139: snapshot of the ".save" files of the saves folder
ScanList ==
    /\ wpc = "scan_list"
    /\ save_files_to_check' \in Enumerations({n \in Names : live[n] /= NoFile})
    /\ ridx' = 1
    /\ wpc' = "scan_loop"
    /\ UNCHANGED << limits, fcall, restoreVars >>
    /\ UNCHANGED << now, mclock, live, backups, pending, backup_count, compress_backups,
                    is_running, last_backup_hashes, observer, last_processed,
                    grouped_backups, hist >>
    /\ UNCHANGED callVars

\* lines 141-151: one turn of the loop over the snapshot
ScanLoopSkipping(known) ==
    /\ wpc = "scan_loop"
    /\ IF ridx > Len(save_files_to_check) \/ ~is_running
       THEN /\ wpc' = "attach"
            /\ UNCHANGED << ridx, hist >>
            /\ UNCHANGED callVars
       ELSE IF save_files_to_check[ridx] \in known
       THEN /\ ridx' = ridx + 1
            /\ UNCHANGED << wpc, hist >>
            /\ UNCHANGED callVars
       ELSE /\ wpc' = "scan_call"
            /\ BeginCall(save_files_to_check[ridx], "reconcile",
                         [hist EXCEPT !.initialFor = @ \cup {save_files_to_check[ridx]}])
            /\ UNCHANGED ridx
    /\ UNCHANGED << limits, fcall, restoreVars >>
    /\ UNCHANGED << now, mclock, live, backups, pending, backup_count, compress_backups,
                    is_running, last_backup_hashes, observer, last_processed,
                    grouped_backups, save_files_to_check >>

\* a reconciliation that takes every file for backed up
ScanLoopSkippingAll == ScanLoopSkipping(Names)

\* line 144: `if filename not in self.last_backup_hashes`
ScanLoop == ScanLoopSkipping(DOMAIN last_backup_hashes)

\* lines 152-156: check_and_create_backup has returned; `notify` is the
\* condition under which 'Initial Backup Created' is sent (line 152)
ScanReturnNotifying(notify) ==
    /\ wpc = "scan_call"
    /\ bpc = "idle"
    /\ ridx' = ridx + 1
    /\ wpc' = "scan_loop"
    /\ hist' = [hist EXCEPT !.initialNotified =
                    IF notify THEN @ \cup {save_files_to_check[ridx]} ELSE @]
    /\ UNCHANGED << limits, fcall, restoreVars >>
    /\ UNCHANGED << now, mclock, live, backups, pending, backup_count, compress_backups,
                    is_running, last_backup_hashes, observer, last_processed,
                    grouped_backups, save_files_to_check >>
    /\ UNCHANGED callVars

\* line 152 is not under any condition
ScanReturn == ScanReturnNotifying(TRUE)

\* the same without the test of line 68
AttachUnconditionally ==
    /\ wpc = "attach"
    /\ observer' = "alive"
    /\ hist' = [hist EXCEPT !.attached = @ + 1]
    /\ wpc' = "loop"
    /\ UNCHANGED << limits, fcall, restoreVars >>
    /\ UNCHANGED << now, mclock, live, backups, pending, backup_count, compress_backups,
                    is_running, last_backup_hashes, last_processed,
                    grouped_backups, save_files_to_check, ridx >>
    /\ UNCHANGED callVars

\* lines 158-159 and 68-72: attach the watcher unless the scan was cancelled
Attach ==
    /\ wpc = "attach"
    /\ IF is_running
       THEN /\ observer' = "alive"
            /\ hist' = [hist EXCEPT !.attached = @ + 1]
       ELSE UNCHANGED << observer, hist >>
    /\ wpc' = "loop"
    /\ UNCHANGED << limits, fcall, restoreVars >>
    /\ UNCHANGED << now, mclock, live, backups, pending, backup_count, compress_backups,
                    is_running, last_backup_hashes, last_processed,
                    grouped_backups, save_files_to_check, ridx >>
    /\ UNCHANGED callVars

\* lines 75-76: the loop ends when the flag is found cleared
LoopExit ==
    /\ wpc = "loop"
    /\ ~is_running
    /\ wpc' = "teardown"
    /\ UNCHANGED << limits, fcall, restoreVars >>
    /\ UNCHANGED << now, mclock, live, backups, pending, backup_count, compress_backups,
                    is_running, last_backup_hashes, observer, last_processed,
                    grouped_backups, save_files_to_check, ridx, hist >>
    /\ UNCHANGED callVars

\* lines 79-80, and line 83 when no observer was started
TeardownStop ==
    /\ wpc = "teardown"
    /\ IF observer = "alive"
       THEN observer' = "stopping" /\ wpc' = "join"
       ELSE observer' = observer /\ wpc' = "idle"
    /\ UNCHANGED << limits, fcall, restoreVars >>
    /\ UNCHANGED << now, mclock, live, backups, pending, backup_count, compress_backups,
                    is_running, last_backup_hashes, last_processed,
                    grouped_backups, save_files_to_check, ridx, hist >>
    /\ UNCHANGED callVars

\* the same without waiting for the observer thread
TeardownWithoutJoin ==
    /\ wpc = "join"
    /\ observer' = "dead"
    /\ pending' = {}
    /\ wpc' = "idle"
    /\ UNCHANGED << limits, fcall, restoreVars >>
    /\ UNCHANGED << now, mclock, live, backups, backup_count, compress_backups,
                    is_running, last_backup_hashes, last_processed,
                    grouped_backups, save_files_to_check, ridx, hist >>
    /\ UNCHANGED callVars

\* lines 81-83: join() returns once the observer thread has left its handler
TeardownJoin ==
    /\ wpc = "join"
    /\ ~(bpc /= "idle" /\ bcaller = "watcher")
    /\ observer' = "dead"
    /\ pending' = {}
    /\ wpc' = "idle"
    /\ UNCHANGED << limits, fcall, restoreVars >>
    /\ UNCHANGED << now, mclock, live, backups, backup_count, compress_backups,
                    is_running, last_backup_hashes, last_processed,
                    grouped_backups, save_files_to_check, ridx, hist >>
    /\ UNCHANGED callVars

\* Something other than a save file changes in the saves folder.
OtherEvent(path) ==
    /\ observer = "alive"
    /\ path \in OtherPaths \ pending
    /\ pending' = pending \cup {path}
    /\ UNCHANGED << now, mclock, live, backups, limits, fcall, hist, restoreVars >>
    /\ UNCHANGED engineVars
    /\ UNCHANGED callVars

(***************************************************************************)
(* The observer thread: BackupEventHandler.on_modified for the event of    *)
(* path n. The thread handles one event at a time.                         *)
(***************************************************************************)
\* a handler that forwards every event of a save file
on_modified_undebounced(n) ==
    /\ observer = "alive"
    /\ n \in pending
    /\ bpc = "idle"
    /\ pending' = pending \ {n}
    /\ IF is_directory(n) \/ ~EndsWithSave(n)
       THEN /\ UNCHANGED << last_processed, hist >>
            /\ UNCHANGED callVars
       ELSE /\ last_processed' = Put(last_processed, n, now)
            /\ BeginCall(n, "watcher", [hist EXCEPT !.lastOutcome[n] = "none"])
    /\ UNCHANGED << limits, fcall, restoreVars >>
    /\ UNCHANGED << now, mclock, live, backups, backup_count, compress_backups,
                    is_running, last_backup_hashes, observer, wpc,
                    grouped_backups, save_files_to_check, ridx >>

on_modified(n) ==
    /\ observer = "alive"
    /\ n \in pending
    /\ bpc = "idle"
    /\ pending' = pending \ {n}
    /\ IF is_directory(n) \/ ~EndsWithSave(n)
       THEN /\ UNCHANGED << last_processed, hist >>
            /\ UNCHANGED callVars
       ELSE IF now - Get(last_processed, n, 0) > DebounceInterval
       THEN /\ last_processed' = Put(last_processed, n, now)
            /\ BeginCall(n, "watcher", [hist EXCEPT !.lastOutcome[n] = "none"])
       ELSE /\ hist' = [hist EXCEPT !.lastOutcome[n] = "dropped"]
            /\ UNCHANGED last_processed
            /\ UNCHANGED callVars
    /\ UNCHANGED << limits, fcall, restoreVars >>
    /\ UNCHANGED << now, mclock, live, backups, backup_count, compress_backups,
                    is_running, last_backup_hashes, observer, wpc,
                    grouped_backups, save_files_to_check, ridx >>

(***************************************************************************)
(* BackupHandler.check_and_create_backup, in the thread that called it.    *)
(***************************************************************************)
\* the same, recording the failed read in the HashTable
FingerprintRecordingFailure ==
    /\ bpc = "hash"
    /\ \E a \in AttemptRunsFor(live[bname]) :
         LET digest == calculate_hash(live[bname].c, a)
             injected == live[bname] /= NoFile /\ Failed(a)
             h0 == [hist EXCEPT !.callRead = live[bname].c,
                                !.callClean = PartialReads(a) = 0,
                                !.ioFailures = IF injected THEN @ + 1 ELSE @]
         IN /\ injected => hist.ioFailures < limits.failures
            /\ current_hash' = digest
            /\ IF digest = NONE
               THEN /\ bpc' = "ret"
                    /\ last_backup_hashes' = Put(last_backup_hashes, bname, NONE)
                    /\ hist' = Emit(Emit(h0, "file_read_error", NoName),
                                     "backup_error", NoName)
               ELSE IF digest = Get(last_backup_hashes, bname, NONE)
               THEN /\ bpc' = "ret"
                    /\ last_backup_hashes' = last_backup_hashes
                    /\ hist' = Emit(h0, "skipped", NoName)
               ELSE /\ bpc' = "copy"
                    /\ last_backup_hashes' = last_backup_hashes
                    /\ hist' = h0
    /\ UNCHANGED << limits, fcall, restoreVars >>
    /\ UNCHANGED << now, mclock, live, backups, pending, bcaller, bname,
                    backups_for_this_save, num_to_delete, pidx >>
    /\ UNCHANGED << backup_count, compress_backups, is_running, observer,
                    last_processed, wpc, grouped_backups, save_files_to_check, ridx >>

\* lines 164-175: fingerprint the live file, compare with the HashTable
Fingerprint ==
    /\ bpc = "hash"
    /\ \E a \in AttemptRunsFor(live[bname]) :
         LET digest == calculate_hash(live[bname].c, a)
             injected == live[bname] /= NoFile /\ Failed(a)
             h0 == [hist EXCEPT !.callRead = live[bname].c,
                                !.callClean = PartialReads(a) = 0,
                                !.ioFailures = IF injected THEN @ + 1 ELSE @]
         IN /\ injected => hist.ioFailures < limits.failures
            /\ current_hash' = digest
            /\ IF digest = NONE
               THEN /\ bpc' = "ret"
                    /\ hist' = Emit(Emit(h0, "file_read_error", NoName),
                                     "backup_error", NoName)
               ELSE IF digest = Get(last_backup_hashes, bname, NONE)
               THEN /\ bpc' = "ret"
                    /\ hist' = Emit(h0, "skipped", NoName)
               ELSE /\ bpc' = "copy"
                    /\ hist' = h0
    /\ UNCHANGED << limits, fcall, restoreVars >>
    /\ UNCHANGED << now, mclock, live, backups, pending, bcaller, bname,
                    backups_for_this_save, num_to_delete, pidx >>
    /\ UNCHANGED engineVars

\* the name and the file written by lines 180-190
Destination(n, t, compress) ==
    BackupName(n, strftime(t), IF compress THEN "zip" ELSE "bak")

\* shutil.copy2 keeps the source's mtime; a new archive gets a new mtime
Copied(file, stamp, compress) ==
    File(file.c, IF compress THEN stamp ELSE file.mtime)

\* lines 177-197: write the backup, update the HashTable, emit "created".
\* A failing write raises into line 202 and may leave a torn file behind.
\* `order` is the order of the three statements of the successful path.
CreateBackupIn(order) ==
    /\ bpc = "copy"
    /\ LET dest == Destination(bname, now, compress_backups)
       IN \/ /\ live[bname] /= NoFile
             /\ backups' = Put(backups, dest, Copied(live[bname], mclock, compress_backups))
             /\ mclock' = IF compress_backups THEN mclock + 1 ELSE mclock
             /\ last_backup_hashes' = Put(last_backup_hashes, bname, current_hash)
             /\ bpc' = "prune_list"
             /\ hist' = [Emit(hist, "created", dest)
                           EXCEPT !.callSteps = @ \o order,
                                  !.callWritten = @ \cup {dest},
                                  !.made[bname] = @ + 1,
                                  !.newest[bname] = dest,
                                  !.initialMade = IF bcaller = "reconcile"
                                                  THEN @ \cup {bname} ELSE @]
          \/ /\ hist.ioFailures < limits.failures
             /\ \/ backups' = backups /\ mclock' = mclock
                \/ backups' = Put(backups, dest, File(Torn, mclock)) /\ mclock' = mclock + 1
             /\ last_backup_hashes' =
                   IF order[1] = "table"
                   THEN Put(last_backup_hashes, bname, current_hash)
                   ELSE last_backup_hashes
             /\ bpc' = "ret"
             /\ hist' = [Emit(hist, "backup_error", NoName)
                           EXCEPT !.ioFailures = @ + 1,
                                  !.callWritten = IF mclock' /= mclock
                                                  THEN @ \cup {dest} ELSE @]
    /\ UNCHANGED << limits, fcall, restoreVars >>
    /\ UNCHANGED << now, live, pending, bcaller, bname, current_hash,
                    backups_for_this_save, num_to_delete, pidx >>
    /\ UNCHANGED << backup_count, compress_backups, is_running, observer,
                    last_processed, wpc, grouped_backups, save_files_to_check, ridx >>

\* the table updated before the backup is written
CreateBackupRecordingFirst == CreateBackupIn(<< "table", "written", "created" >>)

\* the event emitted before the table is updated
CreateBackupNotifyingFirst == CreateBackupIn(<< "written", "created", "table" >>)

\* line 183/188 or 190: the file; line 192: the table; lines 193-197: the event
CreateBackup == CreateBackupIn(<< "written", "table", "created" >>)

(***************************************************************************)
(* BackupHandler.prune_backups(original_filename), called at line 200.     *)
(***************************************************************************)
\* lines 210-213: list the backups of this save
PruneList ==
    /\ bpc = "prune_list"
    /\ backups_for_this_save' =
          [listed |-> {f \in DOMAIN backups : DecodedOriginal(f) = bname},
           sorted |-> << >>]
    /\ bpc' = "prune_sort"
    /\ hist' = [hist EXCEPT !.callSteps = Append(@, "prune")]
    /\ UNCHANGED << limits, fcall, restoreVars >>
    /\ UNCHANGED << now, mclock, live, backups, pending, bcaller, bname, current_hash,
                    num_to_delete, pidx >>
    /\ UNCHANGED engineVars

\* lines 216-219: sort by mtime, oldest first, and count the excess. getmtime
\* of a file that vanished since the listing raises into line 234.
PruneSort ==
    /\ bpc = "prune_sort"
    /\ IF \E f \in backups_for_this_save.listed : f \notin DOMAIN backups
       THEN /\ bpc' = "ret"
            /\ hist' = Emit(hist, "prune_error", NoName)
            /\ UNCHANGED << backups_for_this_save, num_to_delete, pidx >>
       ELSE \E s \in SortedByMtime(backups_for_this_save.listed, backups) :
            /\ backups_for_this_save' = [backups_for_this_save EXCEPT !.sorted = s]
            /\ hist' = [hist EXCEPT !.pruneMtime =
                          [f \in backups_for_this_save.listed |-> backups[f].mtime]]
            /\ pidx' = 1
            /\ IF Len(s) > backup_count
               THEN num_to_delete' = Len(s) - backup_count /\ bpc' = "prune_del"
               ELSE num_to_delete' = 0 /\ bpc' = "ret"
    /\ UNCHANGED << limits, fcall, restoreVars >>
    /\ UNCHANGED << now, mclock, live, backups, pending, bcaller, bname, current_hash >>
    /\ UNCHANGED engineVars

\* lines 220-232: one turn of the deletion loop
PruneDelete ==
    /\ bpc = "prune_del"
    /\ LET f == backups_for_this_save.sorted[pidx]
       IN IF f \in DOMAIN backups
          THEN /\ backups' = Remove(backups, f)
               /\ hist' = [Emit(hist, "pruned", f)
                             EXCEPT !.callRemoved = @ \cup {f},
                                    !.callSteps = Append(@, "pruned")]
          ELSE /\ backups' = backups
               /\ hist' = Emit(hist, "prune_info", f)
    /\ pidx' = pidx + 1
    /\ bpc' = IF pidx + 1 > num_to_delete THEN "ret" ELSE "prune_del"
    /\ UNCHANGED << limits, fcall, restoreVars >>
    /\ UNCHANGED << now, mclock, live, pending, bcaller, bname, current_hash,
                    backups_for_this_save, num_to_delete >>
    /\ UNCHANGED engineVars

\* check_and_create_backup returns to its caller; its locals are dropped
Return ==
    /\ bpc = "ret"
    /\ bpc' = "idle"
    /\ current_hash' = NONE
    /\ backups_for_this_save' = [listed |-> {}, sorted |-> << >>]
    /\ num_to_delete' = 0
    /\ pidx' = 1
    /\ hist' = [hist EXCEPT !.prevCreated[bname] =
                                IF "created" \in Tags(hist.callLog)
                                THEN hist.callRead ELSE -1,
                            !.lastOutcome[bname] =
                                IF "file_read_error" \in Tags(hist.callLog)
                                THEN "abandoned" ELSE "none",
                            !.failedHash[bname] =
                                IF "backup_error" \in Tags(hist.callLog)
                                THEN current_hash ELSE NONE,
                            !.reconErrors =
                                IF bcaller = "reconcile" /\ Tags(hist.callLog) \cap
                                     {"backup_error", "file_read_error"} /= {}
                                THEN @ \cup {bname} ELSE @,
                            !.callLog = << >>,
                            !.callSteps = << >>,
                            !.callHashes = EmptyMap,
                            !.callRead = -1,
                            !.callClean = TRUE,
                            !.callExisted = {},
                            !.callWritten = {},
                            !.callRemoved = {},
                            !.callGone = {},
                            !.pruneMtime = EmptyMap]
    /\ UNCHANGED << limits, fcall, restoreVars >>
    /\ UNCHANGED << now, mclock, live, backups, pending, bcaller, bname >>
    /\ UNCHANGED engineVars

Next ==
    \/ Tick
    \/ \E n \in Names, c \in Contents : GameWrite(n, c)
    \/ \E f \in DOMAIN backups : ExternalDelete(f)
    \/ \E count \in 1 .. MaxRetention, compress \in BOOLEAN : Start(count, compress)
    \/ stop
    \/ RunBegin
    \/ SeedList
    \/ SeedHash
    \/ ScanList
    \/ ScanLoop
    \/ ScanReturn
    \/ Attach
    \/ LoopExit
    \/ TeardownStop
    \/ TeardownJoin
    \/ \E n \in Names : on_modified(n)
    \/ Fingerprint
    \/ CreateBackup
    \/ PruneList
    \/ PruneSort
    \/ PruneDelete
    \/ Return

Spec == Init /\ [][Next]_vars

(***************************************************************************)
(* The engine over a run that outlasts the debounce window, with events    *)
(* of other paths and changes of the save files. The user                  *)
(* starts the engine once and does not stop it.                            *)
(***************************************************************************)
DebounceInit ==
    /\ Fresh
    /\ limits = Limits(1, MaxGameWrites, 0, 0, LongRun)

DebounceNext ==
    \/ Tick
    \/ \E n \in Names, c \in Contents : GameWrite(n, c)
    \/ \E path \in OtherPaths : OtherEvent(path)
    \/ \E compress \in BOOLEAN : Start(MaxRetention, compress)
    \/ RunBegin
    \/ SeedList
    \/ SeedHash
    \/ ScanList
    \/ ScanLoop
    \/ ScanReturn
    \/ Attach
    \/ \E path \in EventPaths : on_modified(path)
    \/ Fingerprint
    \/ CreateBackup
    \/ PruneList
    \/ PruneSort
    \/ PruneDelete
    \/ Return

DebounceSpec == DebounceInit /\ [][DebounceNext]_vars

(***************************************************************************)
(* The engine with two changes of the save files and a read or copy that   *)
(* fails, all within a debounce window.                                    *)
(***************************************************************************)
RetryInit ==
    /\ Fresh
    /\ limits = Limits(1, MaxGameWrites, 0, MaxIOFailures, ShortRun)

RetryNext ==
    \/ Tick
    \/ \E n \in Names, c \in Contents : GameWrite(n, c)
    \/ \E count \in 1 .. MaxRetention, compress \in BOOLEAN : Start(count, compress)
    \/ RunBegin
    \/ SeedList
    \/ SeedHash
    \/ ScanList
    \/ ScanLoop
    \/ ScanReturn
    \/ Attach
    \/ \E n \in Names : on_modified(n)
    \/ Fingerprint
    \/ CreateBackup
    \/ PruneList
    \/ PruneSort
    \/ PruneDelete
    \/ Return

RetrySpec == RetryInit /\ [][RetryNext]_vars

(***************************************************************************)
(* BackupService.restore_backup_file (src/services.py), called by the UI   *)
(* while no engine runs. A live restore (MainWindow._restore_backup) has   *)
(* the live save file as destination; a restore to a location              *)
(* (MainWindow._restore_backup_to_location) has a file the user chose.     *)
(***************************************************************************)
SafetyName(original, timestamp) == [orig |-> original, ts |-> timestamp]

REmit(h, tag) == [h EXCEPT !.events = Append(@, tag)]

\* the UI computes the arguments and calls the service
restore_backup_file(f, dest, is_live_restore) ==
    /\ rpc = "idle"
    /\ wpc = "idle"
    /\ rhist.restores < MaxRestores
    /\ f \in DOMAIN backups
    /\ DecodedOriginal(f) /= NoOriginal
    /\ is_live_restore => dest = DecodedOriginal(f)
    /\ rcall' = [src |-> f, orig |-> DecodedOriginal(f), dest |-> dest,
                 live |-> is_live_restore]
    /\ rpc' = IF is_live_restore THEN "aside" ELSE "write"
    /\ rhist' = [rhist EXCEPT !.restores = @ + 1, !.found = FALSE,
                              !.asideBefore = safety,
                              !.otherBefore = elsewhere,
                              !.written = NoFile,
                              !.events = << >>, !.raised = FALSE,
                              !.dialog = "none"]
    /\ UNCHANGED << now, mclock, live, backups, pending, limits, fcall, hist,
                    safety, elsewhere >>
    /\ UNCHANGED engineVars
    /\ UNCHANGED callVars

\* lines 105-111: move an existing live file to <path>.pre-restore-<timestamp>.
\* shutil.move replaces a file that has this name already; when it fails the
\* exception goes to line 129.
RenameAside ==
    /\ rpc = "aside"
    /\ \/ /\ live[rcall.orig] = NoFile
          /\ rpc' = "write"
          /\ UNCHANGED << live, safety, rhist >>
       \/ /\ live[rcall.orig] /= NoFile
          /\ safety' = Put(safety, SafetyName(rcall.orig, strftime(now)),
                           live[rcall.orig])
          /\ live' = [live EXCEPT ![rcall.orig] = NoFile]
          /\ rhist' = REmit([rhist EXCEPT !.found = TRUE,
                                          !.renamed = @ \cup {live[rcall.orig].c}],
                            "Restore Info")
          /\ rpc' = "write"
       \/ /\ live[rcall.orig] /= NoFile
          /\ rhist.failures < limits.failures
          /\ rhist' = REmit([rhist EXCEPT !.failures = @ + 1, !.found = TRUE,
                                          !.raised = TRUE],
                            "Restore Error")
          /\ rpc' = "done"
          /\ UNCHANGED << live, safety >>
    /\ UNCHANGED << now, mclock, backups, pending, limits, fcall, hist, elsewhere, rcall >>
    /\ UNCHANGED engineVars
    /\ UNCHANGED callVars

\* the folder of the destination path, as a map from names to files
DestFolder == IF rcall.live THEN live ELSE elsewhere

\* lines 113-123: ZipFile.extract writes <folder>/<original_savename>, which a
\* restore to a location then renames to the destination (os.rename replaces
\* an existing destination on POSIX and raises on Windows).
\* line 125: shutil.copy2 writes the destination and keeps the source's mtime.
Materialized(folder, replace) ==
    IF rcall.src.ext = "zip"
    THEN LET extracted == [folder EXCEPT ![rcall.orig] =
                               File(backups[rcall.src].c, mclock)]
         IN IF rcall.live \/ rcall.dest = rcall.orig
            THEN extracted
            ELSE IF replace
                 THEN [extracted EXCEPT ![rcall.dest] = extracted[rcall.orig],
                                       ![rcall.orig] = NoFile]
                 ELSE extracted
    ELSE [folder EXCEPT ![rcall.dest] = backups[rcall.src]]

\* os.rename of line 123 raises: the destination exists, on Windows
RenameRaises ==
    /\ rcall.src.ext = "zip"
    /\ ~rcall.live
    /\ rcall.dest /= rcall.orig
    /\ elsewhere[rcall.dest] /= NoFile

Materialize ==
    /\ rpc = "write"
    /\ \/ \E replace \in BOOLEAN :
             /\ replace \/ RenameRaises
             /\ IF rcall.live
                THEN /\ live' = Materialized(live, replace)
                     /\ UNCHANGED elsewhere
                ELSE /\ elsewhere' = Materialized(elsewhere, replace)
                     /\ UNCHANGED live
             /\ mclock' = IF rcall.src.ext = "zip" THEN mclock + 1 ELSE mclock
             /\ rhist' = IF replace
                         THEN REmit([rhist EXCEPT !.written =
                                        Materialized(DestFolder, replace)[rcall.dest]],
                                    "Restore Success")
                         ELSE REmit([rhist EXCEPT !.raised = TRUE], "Restore Error")
       \/ /\ rhist.failures < limits.failures
          /\ \E torn \in BOOLEAN :
                LET target == IF rcall.src.ext = "zip" THEN rcall.orig
                              ELSE rcall.dest
                    written == IF torn THEN File(Torn, mclock)
                               ELSE DestFolder[target]
                IN IF rcall.live
                   THEN /\ live' = [live EXCEPT ![target] = written]
                        /\ UNCHANGED elsewhere
                   ELSE /\ elsewhere' = [elsewhere EXCEPT ![target] = written]
                        /\ UNCHANGED live
          /\ mclock' = mclock + 1
          /\ rhist' = REmit([rhist EXCEPT !.failures = @ + 1, !.raised = TRUE],
                            "Restore Error")
    /\ rpc' = "done"
    /\ UNCHANGED << now, backups, pending, limits, fcall, hist, safety, rcall >>
    /\ UNCHANGED engineVars
    /\ UNCHANGED callVars

\* a UI that reports success whatever the call did
RestoreReturnReportingSuccess ==
    /\ rpc = "done"
    /\ rpc' = "idle"
    /\ rhist' = [rhist EXCEPT !.dialog = "info"]
    /\ UNCHANGED << now, mclock, live, backups, pending, limits, fcall, hist,
                    safety, elsewhere, rcall >>
    /\ UNCHANGED engineVars
    /\ UNCHANGED callVars

\* the call returns or raises into the UI, which shows a dialog
\* (src/ui/main_window.py, _restore_backup and _restore_backup_to_location)
RestoreReturn ==
    /\ rpc = "done"
    /\ rpc' = "idle"
    /\ rhist' = [rhist EXCEPT !.dialog = IF rhist.raised THEN "critical"
                                         ELSE "info"]
    /\ UNCHANGED << now, mclock, live, backups, pending, limits, fcall, hist,
                    safety, elsewhere, rcall >>
    /\ UNCHANGED engineVars
    /\ UNCHANGED callVars

\* The backup folder holds a raw and a compressed backup of A.save; the game
\* has written A.save since. The folder restored to may hold a file A.save.
RestoreInit ==
    /\ now = StartTime
    /\ mclock = 4
    /\ live \in { [n \in Names |-> IF n = "A" THEN File(3, 3) ELSE NoFile],
                  [n \in Names |-> NoFile] }
    /\ backups = (BackupName("A", 1, "bak") :> File(1, 1))
                 @@ (BackupName("A", 2, "zip") :> File(2, 2))
    /\ limits \in { Limits(0, 1, 0, 0, ShortRun),
                    Limits(0, 0, 0, MaxIOFailures, ShortRun) }
    /\ NotStarted
    /\ fcall = NoFrame
    /\ safety = EmptyMap
    /\ elsewhere \in { [n \in LocNames |-> NoFile],
                       [n \in LocNames |-> IF n = "X" THEN NoFile ELSE File(3, 3)] }
    /\ rpc = "idle"
    /\ rcall = NoCall
    /\ rhist = RHistInit

RestoreNext ==
    \/ Tick
    \/ \E n \in Names, c \in Contents : GameWrite(n, c)
    \/ \E f \in DOMAIN backups, dest \in LocNames, is_live_restore \in BOOLEAN :
          restore_backup_file(f, dest, is_live_restore)
    \/ RenameAside
    \/ Materialize
    \/ RestoreReturn

RestoreSpec == RestoreInit /\ [][RestoreNext]_vars

(***************************************************************************)
(* BackupHandler._calculate_hash stepped attempt by attempt on a file of   *)
(* any content, or on a path where no file exists. The frame holds the     *)
(* locals of the call: the number of attempts begun (`attempt`), what the  *)
(* sha256 object has been fed by failed attempts (`fed`), last_exception,  *)
(* and what the call did: the outcomes of its attempts (`trace`), the      *)
(* notifications emitted, the value returned and whether it raised.        *)
(***************************************************************************)
Exceptions == {"IOError", "PermissionError"}

HashFrame(file) ==
    [fn |-> "hash", file |-> file, pc |-> "loop", attempt |-> 0, fed |-> 0,
     last_exception |-> "None", trace |-> << >>, notifications |-> 0,
     result |-> NONE, raised |-> FALSE]

HashInit ==
    /\ now = StartTime
    /\ mclock = 2
    /\ live = [n \in Names |-> IF n = "A" THEN File(1, 1) ELSE NoFile]
    /\ backups = EmptyMap
    /\ limits = Limits(0, 0, 0, 0, 0)
    /\ NotStarted
    /\ safety = EmptyMap
    /\ elsewhere = [n \in LocNames |-> NoFile]
    /\ rpc = "idle"
    /\ rcall = NoCall
    /\ rhist = RHistInit
    /\ fcall \in {HashFrame(File(c, 1)) : c \in Contents} \cup {HashFrame(NoFile)}

frameOnly ==
    /\ UNCHANGED << now, mclock, live, backups, pending, limits, hist, restoreVars >>
    /\ UNCHANGED engineVars
    /\ UNCHANGED callVars

\* lines 96-104: one turn of `for attempt in range(retries)`
HashAttempt ==
    /\ fcall.fn = "hash"
    /\ fcall.pc = "loop"
    /\ fcall.attempt < HashRetries
    /\ \E o \in AttemptOutcomes, e \in Exceptions :
          /\ fcall.file = NoFile => o = "open_fail"
          /\ fcall' =
                IF o = "ok"
                THEN [fcall EXCEPT !.attempt = @ + 1,
                                   !.trace = Append(@, o),
                                   !.result = Sha256Fed(fcall.fed, fcall.file.c),
                                   !.pc = "done"]
                ELSE [fcall EXCEPT !.attempt = @ + 1,
                                   !.trace = Append(@, o),
                                   !.fed = IF o = "read_fail" THEN @ + 1 ELSE @,
                                   !.last_exception = e]
    /\ frameOnly

\* a loop that ends by raising the last exception, without notification
HashExhaustedRaising ==
    /\ fcall.fn = "hash"
    /\ fcall.pc = "loop"
    /\ fcall.attempt = HashRetries
    /\ fcall' = [fcall EXCEPT !.raised = TRUE, !.pc = "done"]
    /\ frameOnly

\* lines 106-107: the loop is exhausted
HashExhausted ==
    /\ fcall.fn = "hash"
    /\ fcall.pc = "loop"
    /\ fcall.attempt = HashRetries
    /\ fcall' = [fcall EXCEPT !.notifications = @ + 1, !.result = NONE, !.pc = "done"]
    /\ frameOnly

HashNext == HashAttempt \/ HashExhausted

\* the thread that calls _calculate_hash keeps running
HashSpec == HashInit /\ [][HashNext]_vars /\ WF_vars(HashNext)

(***************************************************************************)
(* The naming codec on filenames as text. A filename is a sequence of      *)
(* pieces of text: a piece is a run of ordinary characters ("x"), a line   *)
(* feed, the save extension in lower or upper case, an underscore, a       *)
(* timestamp in the form %Y-%m-%d_%H-%M-%S, digits that are not in that    *)
(* form, or a backup extension. A Python value is a str with its pieces,   *)
(* or a value of another type.                                             *)
(***************************************************************************)
LF == "LF"

SaveTokens == {".save", ".SAVE"}

Timestamps == {"2023-10-27_10-30-00", "2024-01-01_00-00-00"}

ExtTokens == {".bak", ".BAK", ".zip"}

\* the pieces the texts given to the codec are made of
Alphabet ==
    {"x", LF, "_", "2023-10-27_10-30-00", "2023-10-27_10-30", ".BAK", ".backup"}
        \cup SaveTokens

Texts == UNION {[1 .. k -> Alphabet] : k \in 0 .. MaxNameLen}

Str(chars) == [type |-> "str", chars |-> chars]

PyNone == [type |-> "NoneType"]

\* f"{original_filename}_{timestamp}.zip" / f"{original_filename}_{timestamp}.bak"
encode(original_filename, timestamp, compress) ==
    original_filename \o << "_", timestamp, IF compress THEN ".zip" ELSE ".bak" >>

\* _(\d{4}-\d{2}-\d{2}_\d{2}-\d{2}-\d{2})\.(bak|zip) up to the end of the text: no
\* text follows the extension
SuffixAtEnd(r) ==
    /\ Len(r) = 3
    /\ r[1] = "_"
    /\ r[2] \in Timestamps
    /\ r[3] \in ExtTokens

\* _(\d{4}-\d{2}-\d{2}_\d{2}-\d{2}-\d{2})\.(bak|zip)$ with re.IGNORECASE: `$` matches at
\* the end of the text and before a line feed that ends the text
SuffixMatches(r) ==
    /\ Len(r) \in {3, 4}
    /\ r[1] = "_"
    /\ r[2] \in Timestamps
    /\ r[3] \in ExtTokens
    /\ Len(r) = 4 => r[4] = LF

\* re.match of line 33 at position 0: (.*?\.save) ends at piece k. `.` matches
\* any character but a line feed; IGNORECASE lets .SAVE stand for .save
MatchesAt(t, k) ==
    /\ k \in 1 .. Len(t)
    /\ \A i \in 1 .. k - 1 : t[i] /= LF
    /\ t[k] \in SaveTokens
    /\ SuffixMatches(SubSeq(t, k + 1, Len(t)))

\* utils.get_original_from_backup: the lazy (.*?) takes the shortest prefix
get_original_from_backup(backup_filename) ==
    IF backup_filename.type /= "str"
    THEN PyNone
    ELSE LET t == backup_filename.chars
             ks == {k \in 1 .. Len(t) : MatchesAt(t, k)}
         IN IF ks = {}
            THEN PyNone
            ELSE Str(SubSeq(t, 1, CHOOSE k \in ks : \A j \in ks : k <= j))

\* the engine encodes the name of a save file and decodes the result;
\* or a caller decodes any value
RoundTripFrame(original, timestamp, compress) ==
    [fn |-> "roundtrip", pc |-> "encode", original |-> original,
     timestamp |-> timestamp, compress |-> compress,
     input |-> PyNone, result |-> PyNone]

DecodeFrame(v) == [fn |-> "decode", pc |-> "decode", input |-> v, result |-> PyNone]

CodecInit ==
    /\ now = StartTime
    /\ mclock = 2
    /\ live = [n \in Names |-> IF n = "A" THEN File(1, 1) ELSE NoFile]
    /\ backups = EmptyMap
    /\ limits = Limits(0, 0, 0, 0, 0)
    /\ NotStarted
    /\ safety = EmptyMap
    /\ elsewhere = [n \in LocNames |-> NoFile]
    /\ rpc = "idle"
    /\ rcall = NoCall
    /\ rhist = RHistInit
    /\ \/ \E t \in Texts, ts \in Timestamps, z \in BOOLEAN :
             /\ Len(t) >= 1
             /\ t[Len(t)] = ".save"
             /\ fcall = RoundTripFrame(t, ts, z)
       \/ \E t \in Texts : fcall = DecodeFrame(Str(t))
       \/ \E v \in {PyNone, [type |-> "int"]} : fcall = DecodeFrame(v)

\* backup_handler.py, lines 180-189: the backup filename is built
Encode ==
    /\ fcall.fn = "roundtrip"
    /\ fcall.pc = "encode"
    /\ fcall' = [fcall EXCEPT
                    !.input = Str(encode(fcall.original, fcall.timestamp, fcall.compress)),
                    !.pc = "decode"]
    /\ frameOnly

\* get_original_from_backup is applied to the input
Decode ==
    /\ fcall.fn \in {"roundtrip", "decode"}
    /\ fcall.pc = "decode"
    /\ fcall' = [fcall EXCEPT !.result = get_original_from_backup(fcall.input),
                              !.pc = "done"]
    /\ frameOnly

CodecNext == Encode \/ Decode

CodecSpec == CodecInit /\ [][CodecNext]_vars

(***************************************************************************)
(* Notions the properties share.                                           *)
(***************************************************************************)
BackupsOf(n) == {f \in DOMAIN backups : DecodedOriginal(f) = n}

Min(a, b) == IF a < b THEN a ELSE b

Range(s) == {s[i] : i \in DOMAIN s}

\* the engine's state of spec section 4.3, read off the worker thread
EngineState ==
    IF wpc \in {"idle", "starting"} THEN "Idle"
    ELSE IF wpc = "crashed" THEN "Crashed"
    ELSE IF ~is_running \/ wpc \in {"teardown", "join"} THEN "Stopping"
    ELSE IF wpc = "loop" THEN "Monitoring"
    ELSE "Initializing"

\* no call of check_and_create_backup is in progress
Quiescent == bpc = "idle"

\* the environment has injected no I/O failure and deleted no backup file
Undisturbed == hist.ioFailures = 0 /\ hist.extDeletes = 0

PrunedEvents == SelectSeq(hist.callLog, LAMBDA e : e.tag = "pruned")

(***************************************************************************)
(* C1. While the engine is monitoring and no call is in progress, for      *)
(* every save file the HashTable entry is the content hash of the backup   *)
(* created last for it, and a save file without backup has no entry. (The  *)
(* environment has neither deleted a backup nor failed an I/O operation.)  *)
(***************************************************************************)
C1_HashTableIsNewestBackup ==
    (EngineState = "Monitoring" /\ Quiescent /\ Undisturbed) =>
        \A n \in Names :
            IF BackupsOf(n) = {}
            THEN n \notin DOMAIN last_backup_hashes
            ELSE /\ n \in DOMAIN last_backup_hashes
                 /\ hist.newest[n] \in DOMAIN backups =>
                      last_backup_hashes[n] = Sha256(backups[hist.newest[n]].c)

(***************************************************************************)
(* C2. Once an engine is configured, no save file has more backups in the  *)
(* backup folder than backup_count, except while a call of                 *)
(* check_and_create_backup for that save file is in progress. (The         *)
(* environment has neither deleted a backup nor failed an I/O operation.)  *)
(***************************************************************************)
C2_RetentionBound ==
    (hist.starts >= 1 /\ Undisturbed) =>
        \A n \in Names :
            \/ Cardinality(BackupsOf(n)) <= backup_count
            \/ bpc /= "idle" /\ bname = n

(***************************************************************************)
(* C3. A call that fingerprints the same content as the previous call for  *)
(* the same save file, which made a backup, returns at once: it emits     *)
(* "unchanged, skipping" and nothing else, writes and removes no backup    *)
(* file and leaves the HashTable as it was.                                *)
(***************************************************************************)
C3_UnchangedContentSkipped ==
    ( /\ bpc \notin {"idle", "hash"}
      /\ current_hash /= NONE
      /\ hist.prevCreated[bname] = hist.callRead ) =>
        /\ bpc = "ret"
        /\ Tags(hist.callLog) = {"skipped"}
        /\ hist.callWritten = {}
        /\ hist.callRemoved = {}
        /\ last_backup_hashes = hist.callHashes

(***************************************************************************)
(* C4. A call on a readable file whose content hash differs from the       *)
(* HashTable entry adds exactly one backup file of that save file to the   *)
(* backup folder and sets the entry to the hash of the content read. (No   *)
(* I/O operation of the behaviour has failed.)                             *)
(***************************************************************************)
C4_ChangedContentAddsOneBackup ==
    ( /\ bpc \notin {"idle", "hash", "copy"}
      /\ hist.ioFailures = 0
      /\ current_hash /= NONE
      /\ current_hash /= Get(hist.callHashes, bname, NONE) ) =>
        /\ \E f \in hist.callWritten :
              /\ hist.callWritten = {f}
              /\ f \notin hist.callExisted
              /\ DecodedOriginal(f) = bname
        /\ bname \in DOMAIN last_backup_hashes
        /\ last_backup_hashes[bname] = Sha256(hist.callRead)

(***************************************************************************)
(* C5. When prune_backups has listed backup_count + k backups of the save  *)
(* file (k >= 1; distinct names, hence distinct timestamps) and nobody     *)
(* else deletes one of them meanwhile, then at its end exactly             *)
(* backup_count of them remain, the k removed ones are the k oldest by     *)
(* modification time, and it emitted exactly k "pruned" events, one per    *)
(* removed file.                                                           *)
(***************************************************************************)
C5_PruneRemovesOldest ==
    LET listed == backups_for_this_save.listed
        k == Cardinality(listed) - backup_count
    IN ( /\ bpc = "ret"
         /\ "created" \in Tags(hist.callLog)
         /\ "prune_error" \notin Tags(hist.callLog)
         /\ hist.callGone = {}
         /\ k >= 1 ) =>
           /\ BackupsOf(bname) = listed \ hist.callRemoved
           /\ Cardinality(BackupsOf(bname)) = backup_count
           /\ Cardinality(hist.callRemoved) = k
           /\ \A d \in hist.callRemoved : \A r \in listed \ hist.callRemoved :
                 hist.pruneMtime[d] <= hist.pruneMtime[r]
           /\ Len(PrunedEvents) = k
           /\ {PrunedEvents[i].f : i \in 1 .. Len(PrunedEvents)} = hist.callRemoved

\* a prune has removed an excess backup, undisturbed
C5_Witness ==
    /\ bpc = "ret"
    /\ hist.callGone = {}
    /\ "prune_error" \notin Tags(hist.callLog)
    /\ Cardinality(backups_for_this_save.listed) > backup_count
    /\ hist.callRemoved /= {}

(***************************************************************************)
(* C6. When one of the backups prune_backups has listed is deleted by      *)
(* somebody else during the call, the prune reports no error, skips only   *)
(* that file (with a "Prune Info" event) and leaves at most backup_count   *)
(* backups of the save file.                                               *)
(***************************************************************************)
C6_PruneToleratesExternalDelete ==
    LET listed == backups_for_this_save.listed
    IN ( /\ bpc = "ret"
         /\ "created" \in Tags(hist.callLog)
         /\ Cardinality(listed) > backup_count
         /\ hist.callGone \cap listed /= {} ) =>
           /\ "prune_error" \notin Tags(hist.callLog)
           /\ Cardinality(BackupsOf(bname)) <= backup_count
           /\ \A i \in DOMAIN hist.callLog :
                 hist.callLog[i].tag = "prune_info" =>
                     hist.callLog[i].f \in hist.callGone

(***************************************************************************)
(* C7. When reconciliation has completed without a stop request, the save  *)
(* files it made an initial backup for are exactly the save files of its   *)
(* snapshot that had no backup in the backup folder when the run began.    *)
(***************************************************************************)
C7_InitialBackupsOnlyForUnprotected ==
    ( /\ wpc = "attach"
      /\ is_running
      /\ ~hist.stopRequested
      /\ Undisturbed ) =>
        hist.initialMade =
            {n \in Range(save_files_to_check) : n \notin hist.hadBackup}

(***************************************************************************)
(* C8. A live restore that finds a file at the live path has renamed it to *)
(* a .pre-restore-<timestamp> name before it writes the live path; the     *)
(* content of every live file a restore has renamed aside is still in the  *)
(* saves folder, whatever restores followed; and a live restore that finds *)
(* no live file just creates it from the backup.                           *)
(***************************************************************************)
SavesFolderContents ==
    {live[n].c : n \in {m \in Names : live[m] /= NoFile}}
        \cup {safety[k].c : k \in DOMAIN safety}

C8_LiveRestoreKeepsPreviousContent ==
    /\ (rpc = "write" /\ rcall.live /\ rhist.found) =>
          \E k \in DOMAIN safety \ DOMAIN rhist.asideBefore :
              k.orig = rcall.orig
    /\ \A c \in rhist.renamed : c \in SavesFolderContents
    /\ (rpc = "done" /\ rcall.live /\ ~rhist.found /\ ~rhist.raised) =>
          /\ rhist.written.c = backups[rcall.src].c
          /\ safety = rhist.asideBefore
          /\ rhist.events = << "Restore Success" >>

(***************************************************************************)
(* C9. In the first run of the engine, started on an empty backup folder   *)
(* with retention backup_count: when every change has been processed, a    *)
(* save file for which the engine has made m + 1 backups (the initial one  *)
(* and one per notified content change) has min(m + 1, backup_count)       *)
(* backups in the folder, the last one made among them.                    *)
(***************************************************************************)
C9_EndToEndRetention ==
    ( /\ hist.starts = 1
      /\ EngineState = "Monitoring"
      /\ Quiescent
      /\ Undisturbed ) =>
        \A n \in Names :
            /\ Cardinality(BackupsOf(n)) = Min(hist.made[n], backup_count)
            /\ hist.made[n] > 0 => hist.newest[n] \in BackupsOf(n)

(***************************************************************************)
(* C10. The worker only takes the transitions Idle -> Initializing,        *)
(* Initializing -> Monitoring, Initializing -> Stopping, Monitoring ->      *)
(* Stopping and Stopping -> Idle; reconciliation runs once per start and   *)
(* is over when the watcher is attached; and the watcher is attached only  *)
(* if no stop was requested before reconciliation completed.               *)
(***************************************************************************)
AllowedTransitions ==
    { <<"Idle", "Initializing">>, <<"Initializing", "Monitoring">>,
      <<"Initializing", "Stopping">>, <<"Monitoring", "Stopping">>,
      <<"Stopping", "Idle">> }

C10_Transitions ==
    [][EngineState' /= EngineState =>
          <<EngineState, EngineState'>> \in AllowedTransitions]_vars

C10_ReconcileBeforeWatcher ==
    /\ hist.reconciled <= 1
    /\ observer = "alive" => wpc \in {"loop", "teardown"}

C10_WatcherOnlyIfNotStopped ==
    (Undisturbed /\ (observer = "alive" \/ hist.attached > 0)) =>
        ~hist.stopInInit

C10_EngineStateMachine ==
    /\ C10_Transitions
    /\ [](C10_ReconcileBeforeWatcher /\ C10_WatcherOnlyIfNotStopped)

(***************************************************************************)
(* C11. When stop was requested while reconciliation was in progress, the  *)
(* watcher is not attached in that run, and reconciliation starts no       *)
(* initial backup beyond those it had started when stop was requested.     *)
(***************************************************************************)
C11_StopDuringReconciliation ==
    hist.stopInRecon =>
        /\ hist.attached = 0
        /\ observer /= "alive"
        /\ hist.initialFor = hist.initialAtStop

\* a run that was stopped during reconciliation has ended, and a save file
\* of its snapshot that had no backup was never handed to the engine
C11_Witness ==
    /\ hist.stopInRecon
    /\ wpc = "idle"
    /\ \E n \in Range(save_files_to_check) :
          n \notin hist.initialFor /\ n \notin DOMAIN last_backup_hashes

(***************************************************************************)
(* C12. Once the worker has declared itself stopped, the watcher is not    *)
(* alive, no call of check_and_create_backup made by the watcher is in     *)
(* progress, no event is queued and no event can be handled.               *)
(***************************************************************************)
C12_StoppedMeansWatcherDrained ==
    (wpc = "idle" /\ hist.starts >= 1) =>
        /\ observer /= "alive"
        /\ ~(bpc /= "idle" /\ bcaller = "watcher")
        /\ pending = {}
        /\ \A n \in Names : ~ENABLED on_modified(n)

\* the worker has stopped after a run in which the watcher was attached
C12_Witness ==
    /\ wpc = "idle"
    /\ hist.attached > 0
    /\ hist.stopRequested
    /\ observer = "dead"

(***************************************************************************)
(* The engine under fair scheduling: the worker thread and the observer    *)
(* thread are operating-system threads and keep taking their steps; the    *)
(* user and the game need not act. One start, no external deletion.        *)
(***************************************************************************)
LiveInit ==
    /\ Fresh
    /\ limits = Limits(1, 1, 0, 0, ShortRun)

ThreadStep ==
    \/ RunBegin
    \/ SeedList
    \/ SeedHash
    \/ ScanList
    \/ ScanLoop
    \/ ScanReturn
    \/ Attach
    \/ LoopExit
    \/ TeardownStop
    \/ TeardownJoin
    \/ \E n \in Names : on_modified(n)
    \/ Fingerprint
    \/ CreateBackup
    \/ PruneList
    \/ PruneSort
    \/ PruneDelete
    \/ Return

LiveNext ==
    \/ Tick
    \/ \E n \in Names, c \in Contents : GameWrite(n, c)
    \/ \E count \in 1 .. MaxRetention, compress \in BOOLEAN : Start(count, compress)
    \/ stop
    \/ ThreadStep

LiveSpec == LiveInit /\ [][LiveNext]_vars /\ WF_vars(ThreadStep)

(***************************************************************************)
(* C13. After a start, a stop requested at any moment (before the worker   *)
(* has begun run(), during reconciliation or during monitoring) leads to   *)
(* the worker being idle: loop left, watcher detached, 'Monitoring         *)
(* stopped.' emitted.                                                      *)
(***************************************************************************)
C13_StopLeadsToIdle ==
    hist.stopRequested ~> (wpc = "idle" /\ observer /= "alive")

(***************************************************************************)
(* C14. The watcher forwards an event to check_and_create_backup exactly   *)
(* when its path is not a directory, ends in the save extension, and       *)
(* either no event of that path was forwarded before or more than the      *)
(* debounce window has passed since the last one forwarded; then it        *)
(* records the time for that path alone. Every other event is dropped and  *)
(* changes nothing. The recorded times change in no other way, so two      *)
(* forwarded events of one path are more than the window apart.            *)
(***************************************************************************)
Consumed(path) == path \in pending /\ path \notin pending' /\ observer' = "alive"

Forwarded(path) ==
    bpc = "idle" /\ bpc' = "hash" /\ bcaller' = "watcher" /\ bname' = path

Eligible(path) ==
    /\ ~is_directory(path)
    /\ EndsWithSave(path)
    /\ path \in DOMAIN last_processed =>
          now - last_processed[path] > DebounceInterval

C14_DebouncedForwarding ==
    /\ [](\A n \in DOMAIN last_processed : last_processed[n] <= now)
    /\ [][/\ \A path \in EventPaths :
              Consumed(path) =>
                 IF Eligible(path)
                 THEN /\ Forwarded(path)
                      /\ last_processed' = Put(last_processed, path, now)
                 ELSE /\ UNCHANGED << last_processed, bpc, bcaller, bname >>
                      /\ UNCHANGED << backups, last_backup_hashes >>
          /\ (bpc = "idle" /\ bpc' = "hash" /\ bcaller' = "watcher") =>
                 \E path \in EventPaths :
                     Consumed(path) /\ Eligible(path) /\ bname' = path
          /\ last_processed' /= last_processed =>
                 \/ \E path \in EventPaths : Consumed(path) /\ Eligible(path)
                 \/ last_processed' = EmptyMap
        ]_vars

\* an event of a save file was dropped inside the window of an earlier,
\* forwarded one, whose call had returned
C14_Witness ==
    \E n \in Names :
        /\ hist.lastOutcome[n] = "dropped"
        /\ n \in DOMAIN last_processed
        /\ now - last_processed[n] <= DebounceInterval
        /\ now > StartTime
        /\ bpc = "idle"

(***************************************************************************)
(* C15. No error inside the engine terminates the worker: the worker       *)
(* thread never ends in an uncaught exception.                             *)
(***************************************************************************)
C15_WorkerNeverCrashes == wpc /= "crashed"

(***************************************************************************)
(* C16. When the fingerprinter could not read the file, the call of        *)
(* check_and_create_backup ends having emitted the error notifications     *)
(* and nothing else: it wrote and removed no backup file, the backup       *)
(* folder holds no file it did not hold when the call began, the HashTable *)
(* is as it was, no created or pruned event was emitted, and its caller    *)
(* goes on.                                                                *)
(***************************************************************************)
C16_ReadFailureChangesNothing ==
    (bpc = "ret" /\ "file_read_error" \in Tags(hist.callLog)) =>
        /\ Tags(hist.callLog) = {"file_read_error", "backup_error"}
        /\ Len(hist.callLog) = 2
        /\ hist.callWritten = {}
        /\ hist.callRemoved = {}
        /\ DOMAIN backups \subseteq hist.callExisted
        /\ last_backup_hashes = hist.callHashes
        /\ wpc /= "crashed"

\* the call of the watcher for an existing save file gave up on a read failure
C16_Witness ==
    /\ bpc = "ret"
    /\ "file_read_error" \in Tags(hist.callLog)
    /\ bcaller = "watcher"
    /\ live[bname] /= NoFile
    /\ bname \in DOMAIN last_backup_hashes

(***************************************************************************)
(* C17. The fingerprinter makes at most HashRetries attempts and always    *)
(* terminates. It returns a digest at the first attempt that reads the     *)
(* whole file, having emitted nothing; after HashRetries failed attempts   *)
(* it has emitted exactly one file-read-failure notification and returns   *)
(* no digest. It never raises. What it returns is what calculate_hash      *)
(* gives for the same outcomes of the attempts.                            *)
(***************************************************************************)
C17_FingerprinterContract ==
    fcall.fn = "hash" =>
        /\ fcall.attempt <= HashRetries
        /\ Len(fcall.trace) = fcall.attempt
        /\ \A i \in 1 .. Len(fcall.trace) - 1 : fcall.trace[i] /= "ok"
        /\ ~fcall.raised
        /\ fcall.pc = "loop" =>
              /\ \A i \in DOMAIN fcall.trace : fcall.trace[i] /= "ok"
              /\ fcall.notifications = 0
              /\ ENABLED HashNext
        /\ fcall.pc = "done" =>
              /\ fcall.trace \in AttemptRunsFor(fcall.file)
              /\ fcall.result = calculate_hash(fcall.file.c, fcall.trace)
              /\ IF fcall.trace[Len(fcall.trace)] = "ok"
                 THEN fcall.result /= NONE /\ fcall.notifications = 0
                 ELSE /\ fcall.result = NONE
                      /\ fcall.attempt = HashRetries
                      /\ fcall.notifications = 1
                      /\ fcall.last_exception \in Exceptions

\* C17, in full: the contract holds throughout and the call ends.
C17_FingerprinterTerminates ==
    /\ []C17_FingerprinterContract
    /\ <>(fcall.pc = "done")

\* the call gave up after a failed open, a partial read and a permission
\* error on an existing file
C17_Witness ==
    /\ fcall.fn = "hash"
    /\ fcall.pc = "done"
    /\ fcall.file /= NoFile
    /\ fcall.result = NONE
    /\ fcall.fed > 0
    /\ fcall.last_exception = "PermissionError"

(***************************************************************************)
(* C18. When the last call for a save file gave up on a read failure and   *)
(* the file has changed since, the event of that change is forwarded to    *)
(* check_and_create_backup: it is not dropped.                             *)
(***************************************************************************)
C18_ChangeAfterFailureIsRetried ==
    [][\A n \in Names :
          (Consumed(n) /\ hist.lastOutcome[n] = "retry_due") => Forwarded(n)
      ]_vars

(***************************************************************************)
(* C19. Round trip of the naming codec: decoding the backup filename the   *)
(* engine builds from an original filename ending in the save extension,   *)
(* a timestamp and a format gives back the original filename.              *)
(***************************************************************************)
C19_RoundTrip ==
    (fcall.fn = "roundtrip" /\ fcall.pc = "done") =>
        fcall.result = Str(fcall.original)

(***************************************************************************)
(* C20. get_original_from_backup returns no match for every input that is  *)
(* not a text ending in "_<timestamp>.<bak|zip>" (the extensions in any    *)
(* case) after a name that ends in the save extension.                     *)
(***************************************************************************)
Conforms(v) ==
    /\ v.type = "str"
    /\ \E k \in 1 .. Len(v.chars) :
          /\ v.chars[k] \in SaveTokens
          /\ SuffixAtEnd(SubSeq(v.chars, k + 1, Len(v.chars)))

C20_NoMatchUnlessConforming ==
    (fcall.fn = "decode" /\ fcall.pc = "done" /\ ~Conforms(fcall.input)) =>
        fcall.result = PyNone

(***************************************************************************)
(* C21. The HashTable has one writer at a time. While the worker is in     *)
(* reconciliation the observer is not attached and no event can be         *)
(* handled; a call of check_and_create_backup made by reconciliation is in *)
(* progress only while the worker waits for it, a call made by the watcher *)
(* only after the observer was attached, and while a call is in progress   *)
(* no event is handled. The HashTable changes only in the seeding step of  *)
(* reconciliation, in the call in progress, or when a new engine is        *)
(* constructed.                                                            *)
(***************************************************************************)
C21_OneWriterAtATime ==
    /\ wpc \in Reconciling \cup {"starting", "attach"} =>
          /\ observer /= "alive"
          /\ \A path \in EventPaths : ~ENABLED on_modified(path)
    /\ (bpc /= "idle" /\ bcaller = "reconcile") => wpc = "scan_call"
    /\ (bpc /= "idle" /\ bcaller = "watcher") =>
          /\ wpc \in {"loop", "teardown", "join"}
          /\ observer \in {"alive", "stopping"}
    /\ bpc /= "idle" => \A path \in EventPaths : ~ENABLED on_modified(path)

C21_SingleWriter ==
    /\ []C21_OneWriterAtATime
    /\ [][last_backup_hashes' /= last_backup_hashes =>
             \/ wpc = "seed_hash" /\ bpc = "idle"
             \/ bpc = "copy" /\ wpc \in {"scan_call", "loop", "teardown", "join"}
             \/ wpc = "idle" /\ wpc' = "starting" /\ last_backup_hashes' = EmptyMap
        ]_vars

\* a call of the watcher is about to write the HashTable entry of a save
\* file while a further event of that file is queued
C21_Witness ==
    /\ bpc = "copy"
    /\ bcaller = "watcher"
    /\ bname \in pending
    /\ bname \in DOMAIN last_backup_hashes

C22_NoPartialBackupFile ==
    \A f \in DOMAIN backups : backups[f].c /= Torn

(***************************************************************************)
(* C23. A backup file that vanishes between a listing of the backup folder *)
(* and the use of the listing is benign: reconciliation seeding goes on    *)
(* (the worker does not end in an exception) and pruning goes on without   *)
(* reporting an error.                                                     *)
(***************************************************************************)
C23_VanishedFileIsBenign ==
    /\ wpc /= "crashed"
    /\ \A i \in DOMAIN hist.callLog : hist.callLog[i].tag /= "prune_error"

(***************************************************************************)
(* C25. Once a stop has been requested, reconciliation processes no        *)
(* further file: its seeding step seeds the HashTable from no further      *)
(* backup, and its scan hands no further save file to the engine.          *)
(***************************************************************************)
C25_StopHaltsSeedingAndScan ==
    [][/\ (wpc = "seed_hash" /\ ~is_running) =>
              last_backup_hashes' = last_backup_hashes
       /\ (wpc = "scan_loop" /\ ~is_running) =>
              /\ hist'.initialFor = hist.initialFor
              /\ bpc' = "idle"
      ]_vars

(***************************************************************************)
(* C26. After the seeding step of reconciliation, every original name      *)
(* with a decodable backup file (".bak" or ".zip") whose hash can be       *)
(* computed has a HashTable entry, and the entry is the hash of a file of  *)
(* latest modification time in its group.                                  *)
(***************************************************************************)
C26_SeedingCoversEveryGroup ==
    (wpc = "scan_list" /\ Undisturbed) =>
        \A n \in Names :
            BackupsOf(n) /= {} =>
                /\ n \in DOMAIN last_backup_hashes
                /\ \E f \in LatestOf(BackupsOf(n), backups) :
                      last_backup_hashes[n] = calculate_hash(backups[f].c, << "ok" >>)

(***************************************************************************)
(* C30. With a retention count of at least 1, the prune step of a call of  *)
(* check_and_create_backup never deletes the backup file that this call    *)
(* has just created.                                                       *)
(***************************************************************************)
C30_PruneSparesOwnBackup ==
    (bpc /= "idle" /\ backup_count >= 1) => hist.callRemoved \cap hist.callWritten = {}

MAX_RETRIES == 30

MaxClicks == 2

\* the window after __init__ (lines 40-58); `startup` is: "--startup" was on
\* the command line and auto_monitor_on_startup is set (lines 243-254)
AutostartFrame(startup, ready) ==
    [fn |-> "autostart",
     autostart_timer   |-> IF startup THEN "armed" ELSE "None",
     autostart_retries |-> 0,
     paths_are_valid   |-> ready,     \* both folders are directories, now
     checked           |-> FALSE,     \* toggle_monitoring_button.isChecked()
     monitoring        |-> FALSE,     \* the worker thread is running
     queued            |-> 0,         \* queued 'toggle' invocations, line 273
     requested         |-> 0,         \* toggles autostart has asked for
     outcome           |-> "none",    \* what autostart's toggle did
     warned            |-> 0,         \* "Autostart Failed" dialogs, line 293
     firings           |-> 0,         \* runs of _attempt_autostart_monitoring
     clicks            |-> 0]         \* clicks of the user on the button

AutostartInit ==
    /\ now = StartTime
    /\ mclock = 2
    /\ live = [n \in Names |-> NoFile]
    /\ backups = EmptyMap
    /\ limits = Limits(0, 0, 0, 0, 0)
    /\ NotStarted
    /\ safety = EmptyMap
    /\ elsewhere = [n \in LocNames |-> NoFile]
    /\ rpc = "idle"
    /\ rcall = NoCall
    /\ rhist = RHistInit
    /\ \E startup \in BOOLEAN, ready \in BOOLEAN :
          fcall = AutostartFrame(startup, ready)

\* lines 410-456: _toggle_monitoring(checked), the slot of the button's
\* toggled signal; setChecked(False) of lines 421/425 re-enters it with False
toggle_monitoring(f, checked) ==
    IF checked /\ f.paths_are_valid
    THEN [f EXCEPT !.checked = TRUE, !.monitoring = TRUE]
    ELSE [f EXCEPT !.checked = FALSE, !.monitoring = FALSE]

\* the effect on monitoring of one toggle of the button
ToggleOutcome(f) ==
    IF f.checked THEN "stopped"
    ELSE IF f.paths_are_valid THEN "started" ELSE "refused"

\* a drive is mounted or unmounted
FoldersChange ==
    /\ fcall.fn = "autostart"
    /\ fcall' = [fcall EXCEPT !.paths_are_valid = ~@]
    /\ frameOnly

\* the user clicks "Start Monitoring" / "Stop Monitoring" (window or tray)
UserClick ==
    /\ fcall.fn = "autostart"
    /\ fcall.clicks < MaxClicks
    /\ fcall' = [toggle_monitoring(fcall, ~fcall.checked) EXCEPT !.clicks = @ + 1]
    /\ frameOnly

\* lines 256-295: the timer fires and runs _attempt_autostart_monitoring
attempt_autostart_monitoring ==
    /\ fcall.fn = "autostart"
    /\ fcall.autostart_timer = "armed"
    /\ fcall' =
          IF fcall.paths_are_valid
          THEN [fcall EXCEPT !.firings = @ + 1,
                             !.queued = @ + 1,
                             !.requested = @ + 1,
                             !.autostart_timer = "stopped"]
          ELSE IF fcall.autostart_retries + 1 <= MAX_RETRIES
          THEN [fcall EXCEPT !.firings = @ + 1,
                             !.autostart_retries = @ + 1,
                             !.autostart_timer = "armed"]
          ELSE [fcall EXCEPT !.firings = @ + 1,
                             !.autostart_retries = @ + 1,
                             !.warned = @ + 1,
                             !.autostart_timer = "expired"]
    /\ frameOnly

\* line 273: the event loop delivers the queued toggle() of the button
QueuedToggle ==
    /\ fcall.fn = "autostart"
    /\ fcall.queued > 0
    /\ fcall' = [toggle_monitoring(fcall, ~fcall.checked)
                    EXCEPT !.queued = @ - 1,
                           !.outcome = ToggleOutcome(fcall)]
    /\ frameOnly

AutostartNext ==
    \/ FoldersChange
    \/ UserClick
    \/ attempt_autostart_monitoring
    \/ QueuedToggle

AutostartSpec == AutostartInit /\ [][AutostartNext]_vars

(***************************************************************************)
(* C28. Autostart ends: a firing that finds both folders asks once for     *)
(* monitoring and schedules nothing more, after which monitoring has been  *)
(* started; a firing that does not find them schedules a retry while the   *)
(* retry count is at most MAX_RETRIES, and the firing that exhausts the    *)
(* count shows the failure warning once and schedules nothing more.        *)
(***************************************************************************)
C28_AutostartStartsOnceOrGivesUp ==
    fcall.fn = "autostart" =>
        /\ fcall.requested <= 1
        /\ fcall.warned <= 1
        /\ fcall.requested = 1 => fcall.autostart_timer = "stopped" /\ fcall.warned = 0
        /\ fcall.warned = 1 <=> fcall.autostart_retries > MAX_RETRIES
        /\ fcall.warned = 1 => fcall.autostart_timer = "expired"
        /\ fcall.autostart_timer = "armed" => fcall.autostart_retries <= MAX_RETRIES
        /\ fcall.firings <= MAX_RETRIES + 1
        /\ fcall.outcome \in {"none", "started"}

(***************************************************************************)
(* StartupManager (src/startup_manager.py): the shortcut of the            *)
(* application in the Startup folder of the operating system.              *)
(***************************************************************************)
MaxCalls == 4            \* calls of set_startup in one behaviour

MaxShortcutChanges == 2  \* changes made to the Startup folder from outside

NoCallYet == [enable |-> FALSE, before |-> FALSE, did |-> "nothing", ok |-> TRUE,
              after |-> FALSE, shortcutBefore |-> FALSE]

\* lines 25-32: the manager after __init__; shortcut_path is None off Windows
StartupFrame(platform, folder, shortcut) ==
    [fn |-> "startup",
     platform  |-> platform,
     folder    |-> folder,        \* os.path.isdir(self.startup_folder)
     shortcut  |-> shortcut,      \* os.path.exists(self.shortcut_path)
     creates   |-> 0,             \* shortcut.save() calls that succeeded
     removes   |-> 0,             \* os.remove calls that succeeded
     errors    |-> 0,             \* "Startup Error" dialogs
     calls     |-> 0,
     changes   |-> 0,
     untouched |-> FALSE,         \* nothing changed outside since the last call
     last      |-> NoCallYet,     \* the last call of set_startup
     prev      |-> NoCallYet]     \* the call before it

StartupInit ==
    /\ now = StartTime
    /\ mclock = 2
    /\ live = [n \in Names |-> NoFile]
    /\ backups = EmptyMap
    /\ limits = Limits(0, 0, 0, 0, 0)
    /\ NotStarted
    /\ safety = EmptyMap
    /\ elsewhere = [n \in LocNames |-> NoFile]
    /\ rpc = "idle"
    /\ rcall = NoCall
    /\ rhist = RHistInit
    /\ \E platform \in {"win32", "linux"}, folder \in BOOLEAN, shortcut \in BOOLEAN :
          /\ shortcut => folder
          /\ fcall = StartupFrame(platform, folder, shortcut)

\* lines 34-42: StartupManager.is_enabled
is_enabled(f) == f.platform = "win32" /\ f.folder /\ f.shortcut

CallRecord(f, g, enable, did, ok) ==
    [g EXCEPT !.calls = @ + 1,
              !.untouched = TRUE,
              !.prev = f.last,
              !.last = [enable |-> enable, before |-> is_enabled(f), did |-> did,
                        ok |-> ok, after |-> is_enabled(g),
                        shortcutBefore |-> f.shortcut]]

\* lines 57-72: CreateShortcut ... save(); save() fails without the folder
CreateShortcut(f, enable) ==
    \E ok \in BOOLEAN :
       /\ ok => f.folder
       /\ fcall' = IF ok
                   THEN LET g == [f EXCEPT !.shortcut = TRUE, !.creates = @ + 1]
                        IN CallRecord(f, g, enable, "create", TRUE)
                   ELSE LET g == [f EXCEPT !.errors = @ + 1]
                        IN CallRecord(f, g, enable, "create", FALSE)

\* line 77: os.remove(self.shortcut_path); it fails if the file has gone or
\* is locked
RemoveShortcut(f, enable) ==
    \E ok \in BOOLEAN :
       /\ ok => f.folder /\ f.shortcut
       /\ fcall' = IF ok
                   THEN LET g == [f EXCEPT !.shortcut = FALSE, !.removes = @ + 1]
                        IN CallRecord(f, g, enable, "remove", TRUE)
                   ELSE LET g == [f EXCEPT !.errors = @ + 1]
                        IN CallRecord(f, g, enable, "remove", FALSE)

\* set_startup that creates or removes without asking is_enabled()
set_startup_unguarded(enable) ==
    /\ fcall.fn = "startup"
    /\ fcall.calls < MaxCalls
    /\ IF fcall.platform /= "win32"
       THEN fcall' = CallRecord(fcall, fcall, enable, "nothing", TRUE)
       ELSE IF enable
       THEN CreateShortcut(fcall, enable)
       ELSE RemoveShortcut(fcall, enable)
    /\ frameOnly

\* lines 44-83: StartupManager.set_startup(enable)
set_startup(enable) ==
    /\ fcall.fn = "startup"
    /\ fcall.calls < MaxCalls
    /\ IF fcall.platform /= "win32"
       THEN fcall' = CallRecord(fcall, fcall, enable, "nothing", TRUE)
       ELSE IF enable
       THEN IF ~is_enabled(fcall)
            THEN CreateShortcut(fcall, enable)
            ELSE fcall' = CallRecord(fcall, fcall, enable, "nothing", TRUE)
       ELSE IF is_enabled(fcall)
            THEN RemoveShortcut(fcall, enable)
            ELSE fcall' = CallRecord(fcall, fcall, enable, "nothing", TRUE)
    /\ frameOnly

\* the user or the system deletes or adds the shortcut, or the folder
ShortcutChanges ==
    /\ fcall.fn = "startup"
    /\ fcall.changes < MaxShortcutChanges
    /\ \E folder \in BOOLEAN, shortcut \in BOOLEAN :
          /\ shortcut => folder
          /\ << folder, shortcut >> /= << fcall.folder, fcall.shortcut >>
          /\ fcall' = [fcall EXCEPT !.folder = folder, !.shortcut = shortcut,
                                    !.changes = @ + 1, !.untouched = FALSE]
    /\ frameOnly

StartupNext ==
    \/ \E enable \in BOOLEAN : set_startup(enable)
    \/ ShortcutChanges

StartupSpec == StartupInit /\ [][StartupNext]_vars

(***************************************************************************)
(* C29. set_startup is idempotent on the shortcut: set_startup(True)       *)
(* creates the shortcut only when is_enabled() is false,                   *)
(* set_startup(False) removes it only when is_enabled() is true, and a     *)
(* call repeated in the state the same call has established creates and    *)
(* removes nothing.                                                        *)
(***************************************************************************)
C29_Repeated ==
    /\ fcall.calls >= 2
    /\ fcall.untouched
    /\ fcall.prev.enable = fcall.last.enable
    /\ fcall.prev.after = fcall.prev.enable
    /\ fcall.last.before = fcall.prev.after

C29_SetStartupIdempotent ==
    (fcall.fn = "startup" /\ fcall.calls >= 1) =>
        LET c == fcall.last
        IN /\ c.did = "create" => c.enable /\ ~c.before
           /\ c.did = "remove" => ~c.enable /\ c.before
           /\ c.enable = c.before => c.did = "nothing" /\ c.after = c.before
           /\ (c.did = "create" /\ c.ok) => c.after
           /\ (c.did = "remove" /\ c.ok) => ~c.after
           /\ (fcall.untouched /\ c.did = "nothing") => fcall.shortcut = c.shortcutBefore
           /\ C29_Repeated =>
                 /\ c.did = "nothing"
                 /\ fcall.shortcut = c.shortcutBefore
                 /\ c.after = c.enable

C29_Witness ==
    /\ fcall.fn = "startup"
    /\ C29_Repeated
    /\ fcall.last.enable
    /\ fcall.prev.did = "create"
    /\ fcall.creates = 1
    /\ fcall.last.did = "nothing"

(***************************************************************************)
(* C31. A digest returned by _calculate_hash is the digest of exactly the  *)
(* bytes of the file, read from start to end by the attempt that           *)
(* succeeded, also when an earlier attempt failed after reading a part of  *)
(* the file.                                                               *)
(***************************************************************************)
C31_DigestOfTheFileOnly ==
    (fcall.fn = "hash" /\ fcall.pc = "done" /\ fcall.result /= NONE) =>
        fcall.result = Sha256(fcall.file.c)

(***************************************************************************)
(* The monitoring engine under fair scheduling: one start, no injected     *)
(* failure, no external deletion; the game writes save files at any        *)
(* moment and the user may stop the engine.                                *)
(***************************************************************************)
ChangeInit ==
    /\ Fresh
    /\ limits = Limits(1, MaxGameWrites, 0, 0, ShortRun)

ChangeNext ==
    \/ Tick
    \/ \E n \in Names, c \in Contents : GameWrite(n, c)
    \/ \E count \in 1 .. MaxRetention, compress \in BOOLEAN : Start(count, compress)
    \/ stop
    \/ ThreadStep

ChangeSpec == ChangeInit /\ [][ChangeNext]_vars /\ WF_vars(ThreadStep)

(***************************************************************************)
(* C32. While the engine is Monitoring: once a save file has been          *)
(* modified and the modification event for it is delivered, either its     *)
(* content changes again, or the engine leaves Monitoring, or eventually   *)
(* a backup holding that content exists. No final change is left without   *)
(* a backup.                                                               *)
(***************************************************************************)
C32_FinalChangeIsBackedUp ==
    \A n \in Names : \A c \in Contents :
        (EngineState = "Monitoring" /\ n \in pending /\ live[n] /= NoFile /\ live[n].c = c)
            ~> \/ EngineState /= "Monitoring"
               \/ live[n] = NoFile
               \/ live[n].c /= c
               \/ \E f \in BackupsOf(n) : backups[f].c = c

(***************************************************************************)
(* C33. A call of check_and_create_backup that fails after the hash        *)
(* comparison (the copy or the archive raises) leaves the HashTable as it  *)
(* was, so a later call that computes the same hash does not report the    *)
(* file unchanged: it attempts the backup again.                           *)
(***************************************************************************)
C33_FailedAfterCompare ==
    bpc = "ret" /\ current_hash /= NONE /\ "backup_error" \in Tags(hist.callLog)

C33_FailedCopyKeepsTable ==
    /\ C33_FailedAfterCompare =>
          /\ last_backup_hashes = hist.callHashes
          /\ Get(last_backup_hashes, bname, NONE) /= current_hash
    /\ (bpc \notin {"idle", "hash"} /\ current_hash /= NONE
           /\ hist.failedHash[bname] = current_hash) =>
          /\ "skipped" \notin Tags(hist.callLog)
          /\ bpc = "ret" => Tags(hist.callLog) \cap {"created", "backup_error"} /= {}

C33_Witness ==
    /\ bpc = "ret"
    /\ current_hash /= NONE
    /\ hist.failedHash[bname] = current_hash
    /\ "created" \in Tags(hist.callLog)
    /\ last_backup_hashes[bname] = current_hash

(***************************************************************************)
(* C34. check_and_create_backup never overwrites an existing backup file:  *)
(* the file a successful call writes did not exist before the write, also  *)
(* when two backups of one save file are made within the same second       *)
(* (no failure injected, no backup deleted from outside).                  *)
(***************************************************************************)
C34_NeverOverwritesABackup ==
    [][(bpc = "copy" /\ bpc' = "prune_list" /\ Undisturbed) =>
          /\ hist'.newest[bname] \notin DOMAIN backups
          /\ Cardinality(DOMAIN backups') = Cardinality(DOMAIN backups) + 1
      ]_vars

(***************************************************************************)
(* BackupService (src/services.py): the main thread calls                  *)
(* start_monitoring, stop_monitoring and update_settings; the service      *)
(* holds one QThread and one BackupHandler reference. The worker is        *)
(* BackupHandler.run (src/backup_handler.py 62-83) seen from the service:  *)
(* queued on the thread, reconciling, monitoring, tearing down, returned.  *)
(* The handler is constructed as start_monitoring writes it (lines 45-56). *)
(***************************************************************************)
WaitSeconds == 5         \* backup_thread.wait(5000)

MaxServiceCalls == 3     \* calls of the service's three methods

MaxWorkerBackups == 1    \* backups the workers make in one behaviour

SettingsVersions == {1, 2}

\* lines 29-36: the service after __init__
ServiceFrame ==
    [fn |-> "service",
     backup_thread |-> "None",   \* "None", "running" or "finished" (isRunning)
     quit_posted   |-> FALSE,    \* backup_thread.quit() was called
     worker        |-> "none",   \* position of run() of self.backup_handler
     is_running    |-> FALSE,    \* its cancellation flag
     observer      |-> "new",    \* its watcher
     settings      |-> 1,        \* the service's settings
     workerSettings |-> 0,       \* the settings the handler was built with
     main          |-> "idle",   \* "waiting": inside wait(5000), lines 79-80
     restart       |-> FALSE,    \* the wait belongs to update_settings
     waited        |-> 0,        \* seconds spent in that wait
     status        |-> "none",   \* last monitoring_status_changed emitted
     workers       |-> 0,        \* handlers whose run() is queued or executing
     watchers      |-> 0,        \* observers that are alive
     created       |-> 0,        \* handlers constructed
     calls         |-> 0,        \* calls of the three methods
     last          |-> "none",   \* what the last call did
     backupsMade   |-> 0,        \* backups created or pruned by a worker
     afterStop     |-> 0]        \* ... of them while the status was False

ServiceInit ==
    /\ now = StartTime
    /\ mclock = 2
    /\ live = [n \in Names |-> NoFile]
    /\ backups = EmptyMap
    /\ limits = Limits(0, 0, 0, 0, 0)
    /\ NotStarted
    /\ safety = EmptyMap
    /\ elsewhere = [n \in LocNames |-> NoFile]
    /\ rpc = "idle"
    /\ rcall = NoCall
    /\ rhist = RHistInit
    /\ fcall = ServiceFrame

isRunning(f) == f.backup_thread = "running"

\* lines 44-66: a new thread and a new handler, started
NewWorker(f) ==
    [f EXCEPT !.backup_thread = "running",
              !.quit_posted = FALSE,
              !.worker = "queued",
              !.is_running = FALSE,
              !.observer = "new",
              !.workerSettings = f.settings,
              !.workers = @ + 1,
              !.created = @ + 1,
              !.status = "on"]

\* lines 38-68
start_monitoring_from(f) ==
    IF isRunning(f) THEN [f EXCEPT !.last = "start_ignored"]
    ELSE [NewWorker(f) EXCEPT !.last = "started"]

\* start_monitoring without the isRunning test of lines 42-43
start_monitoring_unguarded ==
    /\ fcall.fn = "service"
    /\ fcall.main = "idle"
    /\ fcall.calls < MaxServiceCalls
    /\ fcall' = [NewWorker(fcall) EXCEPT !.last = "started", !.calls = @ + 1]
    /\ frameOnly

start_monitoring ==
    /\ fcall.fn = "service"
    /\ fcall.main = "idle"
    /\ fcall.calls < MaxServiceCalls
    /\ fcall' = [start_monitoring_from(fcall) EXCEPT !.calls = @ + 1]
    /\ frameOnly

\* lines 74-80: stop(), quit(), and the main thread enters wait(5000)
StopAndWait(f, restart) ==
    [f EXCEPT !.is_running = FALSE,
              !.quit_posted = TRUE,
              !.main = "waiting",
              !.restart = restart,
              !.waited = 0,
              !.last = "stopping"]

\* lines 70-80
stop_monitoring ==
    /\ fcall.fn = "service"
    /\ fcall.main = "idle"
    /\ fcall.calls < MaxServiceCalls
    /\ fcall' = IF isRunning(fcall)
                THEN [StopAndWait(fcall, FALSE) EXCEPT !.calls = @ + 1]
                ELSE [fcall EXCEPT !.calls = @ + 1, !.last = "stop_ignored"]
    /\ frameOnly

\* lines 87-96
update_settings(v) ==
    /\ fcall.fn = "service"
    /\ fcall.main = "idle"
    /\ fcall.calls < MaxServiceCalls
    /\ fcall' = IF isRunning(fcall)
                THEN [StopAndWait([fcall EXCEPT !.settings = v], TRUE)
                         EXCEPT !.calls = @ + 1]
                ELSE [fcall EXCEPT !.settings = v, !.calls = @ + 1,
                                   !.last = "settings_stored"]
    /\ frameOnly

\* a second passes while the main thread is blocked in wait(5000)
WaitTick ==
    /\ fcall.fn = "service"
    /\ fcall.main = "waiting"
    /\ fcall.waited < WaitSeconds
    /\ fcall' = [fcall EXCEPT !.waited = @ + 1]
    /\ frameOnly

\* lines 80-84 (and 96): wait returns, because the thread has finished or
\* after 5 s; the status is emitted; update_settings goes on to start
WaitReturns ==
    /\ fcall.fn = "service"
    /\ fcall.main = "waiting"
    /\ fcall.backup_thread = "finished" \/ fcall.waited >= WaitSeconds
    /\ LET f == [fcall EXCEPT !.main = "idle", !.restart = FALSE,
                              !.status = "off", !.last = "stopped"]
       IN fcall' = IF fcall.restart THEN start_monitoring_from(f) ELSE f
    /\ frameOnly

\* the thread's event loop: the queued call of run() begins (line 64), or
\* the loop, told to quit before it delivered the call, ends without it
WorkerRun ==
    /\ fcall.fn = "service"
    /\ fcall.worker = "queued"
    /\ \/ fcall' = [fcall EXCEPT !.worker = "init", !.is_running = TRUE]
       \/ /\ fcall.quit_posted
          /\ fcall' = [fcall EXCEPT !.worker = "none", !.workers = @ - 1,
                                    !.backup_thread = "finished"]
    /\ frameOnly

\* a backup created or pruned by the worker: during reconciliation, or by
\* its watcher while it is attached
WorkerBackup ==
    /\ fcall.fn = "service"
    /\ fcall.backupsMade < MaxWorkerBackups
    /\ \/ fcall.worker = "init" /\ fcall.is_running
       \/ fcall.worker \in {"loop", "teardown"} /\ fcall.observer = "alive"
    /\ fcall' = [fcall EXCEPT !.backupsMade = @ + 1,
                              !.afterStop = IF fcall.status = "off" THEN @ + 1 ELSE @]
    /\ frameOnly

\* lines 65-72: reconciliation returns; the watcher is attached if the
\* flag is still set
WorkerAttach ==
    /\ fcall.fn = "service"
    /\ fcall.worker = "init"
    /\ fcall' = IF fcall.is_running
                THEN [fcall EXCEPT !.worker = "loop", !.observer = "alive",
                                   !.watchers = @ + 1]
                ELSE [fcall EXCEPT !.worker = "loop"]
    /\ frameOnly

\* lines 75-76: the loop sees the flag cleared
WorkerLoopExit ==
    /\ fcall.fn = "service"
    /\ fcall.worker = "loop"
    /\ ~fcall.is_running
    /\ fcall' = [fcall EXCEPT !.worker = "teardown"]
    /\ frameOnly

\* lines 78-83: the observer is stopped and joined, run() returns; the
\* thread finishes once quit() has been posted
WorkerReturn ==
    /\ fcall.fn = "service"
    /\ fcall.worker = "teardown"
    /\ fcall' = [fcall EXCEPT !.worker = "none",
                              !.workers = @ - 1,
                              !.observer = IF @ = "alive" THEN "dead" ELSE @,
                              !.watchers = IF fcall.observer = "alive" THEN @ - 1 ELSE @,
                              !.backup_thread =
                                  IF fcall.quit_posted THEN "finished" ELSE @]
    /\ frameOnly

ServiceNext ==
    \/ start_monitoring
    \/ stop_monitoring
    \/ \E v \in SettingsVersions : update_settings(v)
    \/ WaitTick
    \/ WaitReturns
    \/ WorkerRun
    \/ WorkerBackup
    \/ WorkerAttach
    \/ WorkerLoopExit
    \/ WorkerReturn

ServiceSpec == ServiceInit /\ [][ServiceNext]_vars

(***************************************************************************)
(* C35. Across any sequence of start_monitoring, stop_monitoring and       *)
(* update_settings, at most one worker and at most one attached watcher    *)
(* are active at any time; start_monitoring while the worker thread is     *)
(* running creates no worker, and stop_monitoring while none is running    *)
(* does nothing.                                                           *)
(***************************************************************************)
C35_AtMostOne ==
    fcall.fn = "service" =>
        /\ fcall.workers <= 1
        /\ fcall.watchers <= 1
        /\ fcall.watchers <= fcall.workers
        /\ fcall.workers = 1 => isRunning(fcall)

C37_RestoreToLocationFrame ==
    (rpc = "done" /\ ~rcall.live /\ ~rhist.raised) =>
        /\ \A n \in LocNames \ {rcall.dest} : elsewhere[n] = rhist.otherBefore[n]
        /\ rcall.src \in DOMAIN backups

(***************************************************************************)
(* BackupViewModel (src/ui/view_model.py) beside the backup folder. The    *)
(* engine creates a backup named by the clock second and emits 'created',  *)
(* removes a backup and emits 'pruned' (src/backup_handler.py 192-232);    *)
(* files may be deleted from outside; the UI asks for a rescan.            *)
(***************************************************************************)
MaxViewTime == 2         \* clock seconds of the folder's behaviour

MaxViewEvents == 3       \* 'created' and 'pruned' events

MaxViewDeletes == 1      \* backups deleted from outside

\* a name that does not decode, e.g. "notes.bak"
Undecodable == BackupName("notes", 0, "bak")

\* lines 20-23: the view model after __init__, and the folder the engine
\* of an earlier session has left
ViewFrame(folder) ==
    [fn |-> "view",
     folder     |-> folder,        \* filenames in the backup folder
     organized  |-> EmptyMap,      \* _organized_backups: original -> list
     clock      |-> 1,
     rescans    |-> 0,
     events     |-> 0,
     deletes    |-> 0]

ViewInit ==
    /\ now = StartTime
    /\ mclock = 2
    /\ live = [n \in Names |-> NoFile]
    /\ backups = EmptyMap
    /\ limits = Limits(0, 0, 0, 0, 0)
    /\ NotStarted
    /\ safety = EmptyMap
    /\ elsewhere = [n \in LocNames |-> NoFile]
    /\ rpc = "idle"
    /\ rcall = NoCall
    /\ rhist = RHistInit
    /\ \E folder \in { {}, {BackupName("A", 1, "bak")}, {BackupName("A", 1, "zip")},
                       {BackupName("A", 1, "bak"), Undecodable} } :
          fcall = ViewFrame(folder)

RECURSIVE Listed(_)
\* a listing of the files of S, in some order
Listed(S) ==
    IF S = {} THEN << >>
    ELSE LET f == CHOOSE x \in S : TRUE IN << f >> \o Listed(S \ {f})

\* lines 25-44: rescan_backup_folder
rescan_backup_folder ==
    /\ fcall.fn = "view"
    /\ fcall.rescans < 2
    /\ LET files == {f \in fcall.folder : f.ext = "bak" /\ DecodedOriginal(f) /= NoOriginal}
           keys  == {DecodedOriginal(f) : f \in files}
       IN fcall' = [fcall EXCEPT
             !.organized = [k \in keys |->
                              Listed({f \in files : DecodedOriginal(f) = k})],
             !.rescans = @ + 1]
    /\ frameOnly

\* lines 46-55: on_backup_created
on_backup_created(organized, f) ==
    IF DecodedOriginal(f) = NoOriginal THEN organized
    ELSE Put(organized, DecodedOriginal(f),
             Append(Get(organized, DecodedOriginal(f), << >>), f))

RECURSIVE RemoveFirst(_, _)
\* list.remove(x): the list without the first occurrence of x
RemoveFirst(s, x) ==
    IF s = << >> THEN << >>
    ELSE IF Head(s) = x THEN Tail(s)
    ELSE << Head(s) >> \o RemoveFirst(Tail(s), x)

\* lines 57-71: on_backup_pruned
on_backup_pruned(organized, f) ==
    LET k == DecodedOriginal(f)
    IN IF k = NoOriginal \/ k \notin DOMAIN organized THEN organized
       ELSE IF \E i \in DOMAIN organized[k] : organized[k][i] = f
            THEN LET rest == RemoveFirst(organized[k], f)
                 IN IF rest = << >> THEN Remove(organized, k)
                    ELSE [organized EXCEPT ![k] = rest]
            ELSE organized

\* backup_handler.py 180-197: the engine writes <original>_<second>.<ext>,
\* replacing a file of that name, and the 'created' event reaches the model
EngineCreated ==
    /\ fcall.fn = "view"
    /\ fcall.events < MaxViewEvents
    /\ \E n \in Names, ext \in Exts :
          LET f == BackupName(n, fcall.clock, ext)
          IN fcall' = [fcall EXCEPT !.folder = @ \cup {f},
                                    !.organized = on_backup_created(@, f),
                                    !.events = @ + 1]
    /\ frameOnly

\* backup_handler.py 223-228: the engine removes a backup of a save file and
\* the 'pruned' event reaches the model
EnginePruned ==
    /\ fcall.fn = "view"
    /\ fcall.events < MaxViewEvents
    /\ \E f \in fcall.folder :
          /\ DecodedOriginal(f) /= NoOriginal
          /\ fcall' = [fcall EXCEPT !.folder = @ \ {f},
                                    !.organized = on_backup_pruned(@, f),
                                    !.events = @ + 1]
    /\ frameOnly

\* a backup file is deleted from outside the application
ViewExternalDelete ==
    /\ fcall.fn = "view"
    /\ fcall.deletes < MaxViewDeletes
    /\ \E f \in fcall.folder :
          fcall' = [fcall EXCEPT !.folder = @ \ {f}, !.deletes = @ + 1]
    /\ frameOnly

\* a second passes
ViewTick ==
    /\ fcall.fn = "view"
    /\ fcall.clock < MaxViewTime
    /\ fcall' = [fcall EXCEPT !.clock = @ + 1]
    /\ frameOnly

ViewNext ==
    \/ rescan_backup_folder
    \/ EngineCreated
    \/ EnginePruned
    \/ ViewExternalDelete
    \/ ViewTick

ViewSpec == ViewInit /\ [][ViewNext]_vars

\* the filenames the view model holds
ViewFiles(organized) ==
    UNION {{organized[k][i] : i \in DOMAIN organized[k]} : k \in DOMAIN organized}

(***************************************************************************)
(* C38. After a rescan followed by any 'created' and 'pruned' events and   *)
(* external deletions, the filenames of the view model are exactly the     *)
(* decodable backup files present in the backup folder, no filename is     *)
(* listed twice, and no original name is a key with an empty list.         *)
(***************************************************************************)
C38_ViewMatchesFolder ==
    (fcall.fn = "view" /\ fcall.rescans >= 1) =>
        /\ ViewFiles(fcall.organized) =
              {f \in fcall.folder : DecodedOriginal(f) /= NoOriginal}
        /\ \A k \in DOMAIN fcall.organized :
              /\ fcall.organized[k] /= << >>
              /\ \A i, j \in DOMAIN fcall.organized[k] :
                    i /= j => fcall.organized[k][i] /= fcall.organized[k][j]

(***************************************************************************)
(* C39. During reconciliation 'Initial Backup Created' is sent for a file  *)
(* only if the call of check_and_create_backup before it has created a     *)
(* backup of that file.                                                    *)
(***************************************************************************)
C39_InitialNotificationIsTrue ==
    hist.initialNotified \subseteq hist.initialMade

(***************************************************************************)
(* C40. When reconciliation has completed and no stop was requested, every *)
(* save file of its snapshot has an entry in the HashTable and a backup    *)
(* file of its own in the backup folder, or an error was notified for it   *)
(* during reconciliation.                                                  *)
(***************************************************************************)
C40_ReconciliationCoversSnapshot ==
    (wpc = "attach" /\ is_running /\ ~hist.stopRequested) =>
        \A n \in Range(save_files_to_check) :
            \/ n \in DOMAIN last_backup_hashes /\ BackupsOf(n) /= {}
            \/ n \in hist.reconErrors

(***************************************************************************)
(* C40, amended: the same, provided that no backup file has been deleted   *)
(* from outside the application.                                           *)
(***************************************************************************)
C40_ReconciliationCoversSnapshotUndeleted ==
    (wpc = "attach" /\ is_running /\ ~hist.stopRequested /\ hist.extDeletes = 0) =>
        \A n \in Range(save_files_to_check) :
            \/ n \in DOMAIN last_backup_hashes /\ BackupsOf(n) /= {}
            \/ n \in hist.reconErrors

C40_Witness ==
    /\ wpc = "attach" /\ is_running /\ ~hist.stopRequested /\ hist.extDeletes = 0
    /\ \E n \in Range(save_files_to_check) :
          n \in hist.reconErrors /\ n \notin DOMAIN last_backup_hashes
    /\ \E m \in Range(save_files_to_check) :
          m \in hist.initialMade /\ m \in DOMAIN last_backup_hashes /\ BackupsOf(m) /= {}
====
